---------------------------- MODULE Spec2Model ----------------------------
(***************************************************************************)
(* Release and offline-distribution pipeline of openclaw-desktop.          *)
(*                                                                         *)
(* Three command-line programs are modelled, each as a sequential state    *)
(* machine over the part of the file system it touches:                    *)
(*   - the release manifest generator  (scripts/generate-updater-manifest) *)
(*   - the offline bundle builder      (prepare-openclaw-bundle)           *)
(*   - the offline end-to-end validator                                    *)
(* and four of their functions on their own, over wider inputs:            *)
(* versionGte, detectTargets with the score, resolveInstalledOpenclaw and  *)
(* ensureUserWritableRecursive; then two builds run at the same time on    *)
(* one host, and four views of the desktop application, each with its      *)
(* event handlers and the promises they wait for: Onboarding (the OAuth    *)
(* start), UpdaterWidget, Shell (official page readiness) and Bootstrap.   *)
(* One behaviour of Spec runs one of them; prog says which.                *)
(***************************************************************************)
EXTENDS Integers, Sequences, FiniteSets, TLC

VARIABLES
    prog,           \* which program this behaviour runs
    \* ---- release manifest generator
    tree,           \* assetsDir: the regular files in walk order, [path, text]
    tagName,        \* argv: the release tag
    latestJson,     \* content of assetsDir/latest.json
    g_pc,           \* position of the generator
    sigFiles,       \* the walk's paths that end in .sig, computed before the scan
    sigIdx,         \* index into sigFiles of the next sidecar to scan
    bestByTarget,   \* the Map target -> candidate, as its ordered entry list
    g_exit,         \* exit code of the generator (-1: still running)
    argv,           \* the three positional arguments, "" for one not given
    g_run,          \* which run of the generator on this directory this is
    firstJson,      \* what the first run wrote, once a second run has begun
    \* ---- offline bundle builder
    fs,             \* the paths that exist on the build host
    builds,         \* builds started so far
    env,            \* process.env and the local source tree of this build
    b_pc,           \* position of the builder in main
    packed,         \* what packOpenclawTarball returned
    runtime,        \* what resolveBundledNodeRuntime returned
    verify,         \* how snapshot verification went
    cmds,           \* the external commands this build has run, in order
    b_exit,         \* exit code of the builder (-1: still running)
    \* ---- offline end-to-end validator
    e_pc,           \* position of the validator in main
    tempRoot,       \* the ephemeral environment: "none", "exists" or "removed"
    onboardRuns,    \* the runs of the onboard subcommand made, in order
    gateway,        \* the service process: "none", "running" or "exited"
    killed,         \* SIGTERM was sent to the service process
    now,            \* seconds since waitForHttp was called
    deadline,       \* the deadline of waitForHttp, on the same clock
    okStart,        \* when the poll that got a successful response began (-1: none)
    e_exit,         \* exit code of the validator (-1: still running)
    e_env,          \* process.env of the validator
    e_reads,        \* paths the validator has read
    e_writes,       \* paths the validator has created, written or removed
    e_children,     \* the child processes it has started, with their env
    \* ---- versionGte, called on its own
    v_pc,           \* "call" before the call, "returned" after it
    v_left,         \* the first argument, with the version it was written from
    v_right,        \* the second argument, with the version it was written from
    v_verdict,      \* what versionGte returned
    \* ---- detectTargets and the score of line 122, called on their own
    c_pc,           \* "name", "lower", "classified"
    c_fileName,     \* the file name, with the parts it was written from
    c_lowerName,    \* fileName.toLowerCase()
    c_targets,      \* what detectTargets returned
    c_baseScore,    \* the score of line 122
    \* ---- resolveInstalledOpenclaw, called on its own
    p_pc,           \* "probe", "returned" or "threw"
    p_caller,       \* the script whose copy of the function runs
    p_platform,     \* process.platform
    p_kinds,        \* what is at each candidate path: "none", "file" or "dir"
    p_index,        \* index of the candidate the loop is at
    p_found,        \* the path returned
    \* ---- ensureUserWritableRecursive, called on its own
    w_pc,           \* "walk", "returned" or "threw"
    w_nodes,        \* the entries on disk: path -> [kind, mode, target]
    w_before,       \* w_nodes when the function was called
    w_queue,        \* the work queue
    w_visits,       \* how many times each path was taken from the queue
    \* ---- two builds at the same time, on one file system
    r_fs,           \* the paths that exist
    r_pc,           \* position of each build in main
    r_exit,         \* exit code of each build (-1: still running)
    r_wrote,        \* the paths under the bundle directory each build wrote
    \* ---- Onboarding: handleOAuthStart
    o_busy,         \* the busy state
    o_detected,     \* codexAuthStatus.detected
    o_selected,     \* selectedProvider
    o_calls,        \* the bridge calls made, each with how it went
    o_shell,        \* times onLoginSuccess was called
    \* ---- UpdaterWidget
    u_phase,        \* the phase state
    u_updateRef,    \* updateRef.current: 0, or the check that returned the update
    u_timer,        \* the startup timer: "none", "armed" or "fired"
    u_checks,       \* every call of check(), with whether it is still pending
    u_installs,     \* every call of downloadAndInstall, with how far it got
    u_clicks,       \* presses of the check button so far
    \* ---- Shell: ensureOfficialWebReady
    s_loading,      \* officialLoading
    s_ready,        \* officialReady
    s_opening,      \* officialOpening
    s_tab,          \* activeTab
    s_calls,        \* the calls of ensureOfficialWebReady, in order of start
    s_opens,        \* the calls of openOfficialWebWindow, in order of start
    \* ---- Bootstrap: the mount effect and the live log buffer
    m_mounted,      \* the view is mounted
    m_cancelled,    \* the effect's cancelled
    m_unlisten,     \* the effect's unlisten is set
    m_listen,       \* the promise of listen(): "none", "pending", "resolved"
                    \* or "rejected"
    m_registered,   \* listeners for bootstrap-log registered with the event system
    m_unlistenCalls,\* times the function listen() resolved with was called
    m_running,      \* the running state
    m_liveLogs,     \* the liveLogs state
    m_emitted,      \* lines the current bootstrap run has emitted
    m_runs          \* calls of runBootstrap so far

e_io == <<e_env, e_reads, e_writes, e_children>>

e_vars == <<e_pc, tempRoot, onboardRuns, gateway, killed, now, deadline, okStart, e_exit,
           e_io>>

b_vars == <<fs, builds, env, b_pc, packed, runtime, verify, cmds, b_exit>>

g_vars == <<tree, tagName, latestJson, g_pc, sigFiles, sigIdx, bestByTarget, g_exit,
           argv, g_run, firstJson>>

v_vars == <<v_pc, v_left, v_right, v_verdict>>

c_vars == <<c_pc, c_fileName, c_lowerName, c_targets, c_baseScore>>

p_vars == <<p_pc, p_caller, p_platform, p_kinds, p_index, p_found>>

w_vars == <<w_pc, w_nodes, w_before, w_queue, w_visits>>

r_vars == <<r_fs, r_pc, r_exit, r_wrote>>

o_vars == <<o_busy, o_detected, o_selected, o_calls, o_shell>>

u_vars == <<u_phase, u_updateRef, u_timer, u_checks, u_installs, u_clicks>>

s_vars == <<s_loading, s_ready, s_opening, s_tab, s_calls, s_opens>>

m_vars == <<m_mounted, m_cancelled, m_unlisten, m_listen, m_registered,
           m_unlistenCalls, m_running, m_liveLogs, m_emitted, m_runs>>

(***************************************************************************)
(* Bounds of the model.                                                    *)
(***************************************************************************)
MaxAssets == 2      \* signature sidecars in the assets directory
MaxBuilds == 2      \* builds run one after the other on the same host
MaxFetchSec == 2    \* the longest one fetch of the validator takes, in seconds
MaxStarts == 2      \* calls of handleOAuthStart that reach the bridge
MaxChecks == 2      \* presses of the updater's check button
MaxCalls == 2       \* readiness calls of the shell, and window openings
MaxLogLines == 502  \* lines one bootstrap run emits
MaxRuns == 2        \* bootstrap runs of one mounted view

(***************************************************************************)
(* Strings, as the scripts use them.                                       *)
(***************************************************************************)
CharAt(s, i) == SubSeq(s, i, i)

UpperChars == "ABCDEFGHIJKLMNOPQRSTUVWXYZ"
LowerChars == "abcdefghijklmnopqrstuvwxyz"
DigitChars == "0123456789"

IsIn(c, chars) == \E i \in 1..Len(chars) : CharAt(chars, i) = c

LowerChar(c) ==
    IF IsIn(c, UpperChars)
    THEN CharAt(LowerChars, CHOOSE i \in 1..26 : CharAt(UpperChars, i) = c)
    ELSE c

RECURSIVE toLowerCase(_)
toLowerCase(s) ==
    IF s = "" THEN "" ELSE LowerChar(Head(s)) \o toLowerCase(Tail(s))

endsWith(s, suffix) ==
    /\ Len(s) >= Len(suffix)
    /\ SubSeq(s, Len(s) - Len(suffix) + 1, Len(s)) = suffix

startsWith(s, prefix) ==
    /\ Len(s) >= Len(prefix)
    /\ SubSeq(s, 1, Len(prefix)) = prefix

includes(s, part) ==
    \E i \in 1..(Len(s) - Len(part) + 1) : SubSeq(s, i, i + Len(part) - 1) = part

IsWhitespace(c) == c \in {" ", "\n", "\t", "\r"}

RECURSIVE trimStart(_)
trimStart(s) ==
    IF s # "" /\ IsWhitespace(Head(s)) THEN trimStart(Tail(s)) ELSE s

RECURSIVE trimEnd(_)
trimEnd(s) ==
    IF s # "" /\ IsWhitespace(CharAt(s, Len(s)))
    THEN trimEnd(SubSeq(s, 1, Len(s) - 1))
    ELSE s

trim(s) == trimEnd(trimStart(s))

\* s.slice(0, -n)
sliceOff(s, n) == SubSeq(s, 1, Len(s) - n)

Range(f) == {f[i] : i \in DOMAIN f}

(***************************************************************************)
(* A JavaScript Map (and an object with string keys): its entries in       *)
(* insertion order, each <<key, value>>.                                   *)
(***************************************************************************)
MapHas(m, k) == \E i \in 1..Len(m) : m[i][1] = k

MapGet(m, k) == m[CHOOSE i \in 1..Len(m) : m[i][1] = k][2]

MapSetAppend(m, k, v) == Append(m, <<k, v>>)

MapSet(m, k, v) ==
    IF MapHas(m, k)
    THEN [i \in 1..Len(m) |-> IF m[i][1] = k THEN <<k, v>> ELSE m[i]]
    ELSE Append(m, <<k, v>>)

MapKeys(m) == {m[i][1] : i \in 1..Len(m)}


(***************************************************************************)
(* Release manifest generator: classification and scoring of file names.   *)
(***************************************************************************)
Null == "null"

IsAlnum(c) == IsIn(c, LowerChars) \/ IsIn(c, DigitChars) \/ IsIn(c, UpperChars)

\* /(^|[^a-z0-9])(tok)([^a-z0-9]|$)/i
hasToken(s, tok) ==
    \E i \in 1..(Len(s) - Len(tok) + 1) :
        /\ toLowerCase(SubSeq(s, i, i + Len(tok) - 1)) = tok
        /\ (i = 1 \/ ~IsAlnum(CharAt(s, i - 1)))
        /\ (i + Len(tok) - 1 = Len(s) \/ ~IsAlnum(CharAt(s, i + Len(tok))))

detectArchX64First(lowerName) ==
    IF \/ hasToken(lowerName, "x86_64")
       \/ hasToken(lowerName, "x64")
       \/ hasToken(lowerName, "amd64")
        THEN "x86_64"
    ELSE IF hasToken(lowerName, "aarch64") \/ hasToken(lowerName, "arm64")
        THEN "aarch64"
    ELSE IF hasToken(lowerName, "i686") \/ hasToken(lowerName, "x86")
        THEN "i686"
    ELSE Null

detectArch(lowerName) ==
    IF hasToken(lowerName, "aarch64") \/ hasToken(lowerName, "arm64")
        THEN "aarch64"
    ELSE IF \/ hasToken(lowerName, "x86_64")
            \/ hasToken(lowerName, "x64")
            \/ hasToken(lowerName, "amd64")
        THEN "x86_64"
    ELSE IF hasToken(lowerName, "i686") \/ hasToken(lowerName, "x86")
        THEN "i686"
    ELSE Null

scoreCandidateNoPenalty(lowerName) ==
      (IF endsWith(lowerName, ".app.tar.gz") THEN 300 ELSE 0)
    + (IF endsWith(lowerName, ".appimage") \/ endsWith(lowerName, ".appimage.tar.gz")
       THEN 300 ELSE 0)
    + (IF includes(lowerName, "setup") /\ endsWith(lowerName, ".exe") THEN 300 ELSE 0)
    + (IF endsWith(lowerName, ".msi") THEN 260 ELSE 0)
    + (IF endsWith(lowerName, ".deb") THEN 240 ELSE 0)
    + (IF endsWith(lowerName, ".rpm") THEN 230 ELSE 0)
    + (IF endsWith(lowerName, ".nsis.zip") THEN 220 ELSE 0)
    + (IF endsWith(lowerName, ".msi.zip") THEN 210 ELSE 0)

scoreCandidate(lowerName) ==
      (IF endsWith(lowerName, ".app.tar.gz") THEN 300 ELSE 0)
    + (IF endsWith(lowerName, ".appimage") \/ endsWith(lowerName, ".appimage.tar.gz")
       THEN 300 ELSE 0)
    + (IF includes(lowerName, "setup") /\ endsWith(lowerName, ".exe") THEN 300 ELSE 0)
    + (IF endsWith(lowerName, ".msi") THEN 260 ELSE 0)
    + (IF endsWith(lowerName, ".deb") THEN 240 ELSE 0)
    + (IF endsWith(lowerName, ".rpm") THEN 230 ELSE 0)
    + (IF endsWith(lowerName, ".nsis.zip") THEN 220 ELSE 0)
    + (IF endsWith(lowerName, ".msi.zip") THEN 210 ELSE 0)
    - (IF includes(lowerName, "portable") THEN 100 ELSE 0)

detectTargetsOneMac(lowerName) ==
    LET arch    == detectArch(lowerName)
        isMac   == endsWith(lowerName, ".app.tar.gz")
        isWin   == \/ endsWith(lowerName, ".exe")
                   \/ endsWith(lowerName, ".msi")
                   \/ endsWith(lowerName, ".nsis.zip")
                   \/ endsWith(lowerName, ".msi.zip")
        isLinux == \/ endsWith(lowerName, ".appimage")
                   \/ endsWith(lowerName, ".appimage.tar.gz")
                   \/ endsWith(lowerName, ".deb")
                   \/ endsWith(lowerName, ".rpm")
        orX64   == IF arch # Null THEN arch ELSE "x86_64"
    IN  IF ~isMac /\ ~isWin /\ ~isLinux THEN <<>>
        ELSE IF isMac THEN << "darwin-" \o orX64 >>
        ELSE IF isWin THEN << "windows-" \o orX64 >>
        ELSE << "linux-" \o orX64 >>

detectTargets(lowerName) ==
    LET arch    == detectArch(lowerName)
        isMac   == endsWith(lowerName, ".app.tar.gz")
        isWin   == \/ endsWith(lowerName, ".exe")
                   \/ endsWith(lowerName, ".msi")
                   \/ endsWith(lowerName, ".nsis.zip")
                   \/ endsWith(lowerName, ".msi.zip")
        isLinux == \/ endsWith(lowerName, ".appimage")
                   \/ endsWith(lowerName, ".appimage.tar.gz")
                   \/ endsWith(lowerName, ".deb")
                   \/ endsWith(lowerName, ".rpm")
        orX64   == IF arch # Null THEN arch ELSE "x86_64"
    IN  IF ~isMac /\ ~isWin /\ ~isLinux THEN <<>>
        ELSE IF isMac
            THEN IF arch # Null
                 THEN << "darwin-" \o arch >>
                 ELSE << "darwin-x86_64", "darwin-aarch64" >>
        ELSE IF isWin THEN << "windows-" \o orX64 >>
        ELSE << "linux-" \o orX64 >>

(***************************************************************************)
(* The assets directory.  Every path is assetsDir/<name>; the tree lists   *)
(* its regular files in the order walkFiles meets them, with their text.   *)
(***************************************************************************)
assetsDir == "assets"

Catalog ==
    { "App.app.tar.gz", "App_aarch64.app.tar.gz", "App_x64.app.tar.gz",
      "App-setup.exe", "App.msi", "APP.MSI", "app_amd64.deb", "App.exe",
      "notes.txt" }

AssetKinds == {"signed", "blank", "orphan"}

AssetChoices == [name : Catalog, kind : AssetKinds]

pathJoin(dir, name) == dir \o "/" \o name

RECURSIVE basename(_)
basename(p) ==
    IF \E i \in 1..Len(p) : CharAt(p, i) = "/"
    THEN basename(SubSeq(p, (CHOOSE i \in 1..Len(p) : CharAt(p, i) = "/") + 1, Len(p)))
    ELSE p

\* What a signing run leaves for one artifact: the artifact and its sidecar
\* ("signed"), a sidecar with only white space ("blank"), or a sidecar whose
\* artifact is gone ("orphan").
SigTextOf(pick) ==
    IF pick.kind = "blank" THEN " \n" ELSE " sig " \o pick.name \o "\n"

FilesOf(pick) ==
    LET art == [path |-> pathJoin(assetsDir, pick.name), text |-> ""]
        sig == [path |-> pathJoin(assetsDir, pick.name) \o ".sig",
                text |-> SigTextOf(pick)]
    IN  IF pick.kind = "orphan" THEN << sig >> ELSE << art, sig >>

RECURSIVE TreeOf(_)
TreeOf(picks) ==
    IF picks = <<>> THEN <<>> ELSE FilesOf(Head(picks)) \o TreeOf(Tail(picks))

AssetSeqs ==
    { s \in UNION { [1..n -> AssetChoices] : n \in 0..MaxAssets } :
        \A i, j \in DOMAIN s : i # j => s[i].name # s[j].name }

Tags == {"v1.2.3", "1.2.3+b"}
githubRepo == "owner/repo"
PubDates == {"t1", "t2"}

latestPath == pathJoin(assetsDir, "latest.json")
Absent == [kind |-> "absent"]
Stale  == [kind |-> "stale"]

walkFiles(t) == [i \in 1..Len(t) |-> t[i].path]

existsFile(t, p) == \E i \in 1..Len(t) : t[i].path = p

readFileSync(t, p) == t[CHOOSE i \in 1..Len(t) : t[i].path = p].text

IsSig(p) == endsWith(p, ".sig")

\* lines 99-100
sigFilesOf(t) == SelectSeq(walkFiles(t), IsSig)

(***************************************************************************)
(* Release manifest generator: the scan, the selection and the output.     *)
(***************************************************************************)
UnreservedMarks == "-_.!~*'()"

\* no character is encoded
encodeNothing(s) == s

PercentCode(c) ==
    CASE c = " " -> "%20" [] c = "#" -> "%23" [] c = "%" -> "%25"
      [] c = "&" -> "%26" [] c = "+" -> "%2B" [] c = "," -> "%2C"
      [] c = "/" -> "%2F" [] c = ":" -> "%3A" [] c = "=" -> "%3D"
      [] c = "?" -> "%3F" [] c = "@" -> "%40"

RECURSIVE encodeURIComponent(_)
encodeURIComponent(s) ==
    IF s = "" THEN ""
    ELSE (IF IsAlnum(Head(s)) \/ IsIn(Head(s), UnreservedMarks)
          THEN Head(s) ELSE PercentCode(Head(s)))
         \o encodeURIComponent(Tail(s))

version == IF startsWith(tagName, "v") THEN SubSeq(tagName, 2, Len(tagName)) ELSE tagName

BeatsOrTies(candidate, existing) == candidate.score >= existing.score

\* candidate.score > existing.score
Beats(candidate, existing) == candidate.score > existing.score

\* lines 123-135: one candidate per target of the file, kept when the target
\* has none yet or when it beats the one kept
RECURSIVE offerTargets(_, _, _)
offerTargets(best, targets, cand) ==
    IF targets = <<>> THEN best
    ELSE LET target    == Head(targets)
             candidate == [cand EXCEPT !.target = target]
             next == IF ~MapHas(best, target) \/ Beats(candidate, MapGet(best, target))
                     THEN MapSet(best, target, candidate)
                     ELSE best
         IN  offerTargets(next, Tail(targets), cand)

\* lines 110-122 for every name of the catalog, computed once: the targets of
\* the lowercased name and its score, with 20 more for an architecture token
archBonusNone(arch) == 0

\* line 122: (detectArch(lowerName) ? 20 : 0)
archBonus(arch) == IF arch # Null THEN 20 ELSE 0

classify ==
    [fileName \in Catalog |->
        LET lowerName == toLowerCase(fileName)
        IN  [targets   |-> detectTargets(lowerName),
             baseScore |-> scoreCandidate(lowerName)
                           + archBonus(detectArch(lowerName))]]

scanSigAnyArtifact(best, t, sigPath) ==
    LET artifactPath == sliceOff(sigPath, 4)
        fileName     == basename(artifactPath)
        targets      == classify[fileName].targets
        signature    == trim(readFileSync(t, sigPath))
        baseScore    == classify[fileName].baseScore
    IN  IF Len(targets) = 0 THEN best
        ELSE IF signature = "" THEN best
        ELSE offerTargets(best, targets,
                [target |-> "", fileName |-> fileName, artifactPath |-> artifactPath,
                 signature |-> signature, score |-> baseScore])

\* lines 105-120: the sidecar is skipped when its artifact is no file, when
\* the name has no target, or when its trimmed text is empty
scanSig(best, t, sigPath) ==
    LET artifactPath == sliceOff(sigPath, 4)
        fileName     == basename(artifactPath)
        targets      == classify[fileName].targets
        signature    == trim(readFileSync(t, sigPath))
        baseScore    == classify[fileName].baseScore
    IN  IF ~existsFile(t, artifactPath) THEN best
        ELSE IF Len(targets) = 0 THEN best
        ELSE IF signature = "" THEN best
        ELSE offerTargets(best, targets,
                [target |-> "", fileName |-> fileName, artifactPath |-> artifactPath,
                 signature |-> signature, score |-> baseScore])

assetUrl(fileName) ==
    "https://github.com/" \o githubRepo \o "/releases/download/"
        \o encodeURIComponent(tagName) \o "/" \o encodeURIComponent(fileName)

\* lines 144-151
RECURSIVE platformsOf(_, _)
platformsOf(obj, entries) ==
    IF entries = <<>> THEN obj
    ELSE platformsOf(
            MapSet(obj, Head(entries)[1],
                   [signature |-> Head(entries)[2].signature,
                    url |-> assetUrl(Head(entries)[2].fileName)]),
            Tail(entries))

noArtifactsNever(best) == FALSE

\* bestByTarget.size === 0
noArtifacts(best) == Len(best) = 0

\* fs.writeFileSync(outputPath, ...)
writeFile(t, p) == IF existsFile(t, p) THEN t ELSE Append(t, [path |-> p, text |-> ""])

\* no argument given
NoArgs == [assetsDirArg |-> "", tagNameArg |-> "", githubRepoArg |-> ""]

\* notes that carry the time of the run
manifestStampedNotes(v, tag, stamp, plats) ==
    [kind      |-> "manifest",
     version   |-> v,
     notes     |-> "Release " \o tag \o " " \o stamp,
     pub_date  |-> stamp,
     platforms |-> plats]

\* lines 153-158; stamp is new Date().toISOString()
manifestOf(v, tag, stamp, plats) ==
    [kind      |-> "manifest",
     version   |-> v,
     notes     |-> "Release " \o tag,
     pub_date  |-> stamp,
     platforms |-> plats]

\* The generator after line 102: the three arguments were given, the assets
\* directory exists and was walked.
g_Init ==
    /\ \E picks \in AssetSeqs, stale \in BOOLEAN :
          /\ tree = TreeOf(picks)
                    \o (IF stale THEN << [path |-> latestPath, text |-> ""] >> ELSE <<>>)
          /\ latestJson = IF stale THEN Stale ELSE Absent
    /\ tagName \in Tags
    /\ sigFiles = sigFilesOf(tree)
    /\ g_pc = "scan"
    /\ sigIdx = 1
    /\ bestByTarget = <<>>
    /\ g_exit = -1
    /\ argv = [assetsDirArg |-> assetsDir, tagNameArg |-> tagName,
               githubRepoArg |-> githubRepo]
    /\ g_run = 1
    /\ firstJson = Absent

g_Idle ==
    /\ tree = <<>>
    /\ tagName = ""
    /\ latestJson = Absent
    /\ g_pc = "off"
    /\ sigFiles = <<>>
    /\ sigIdx = 0
    /\ bestByTarget = <<>>
    /\ g_exit = -1
    /\ argv = NoArgs
    /\ g_run = 0
    /\ firstJson = Absent

\* one turn of the loop of lines 104-136
ScanSig ==
    /\ g_pc = "scan"
    /\ sigIdx <= Len(sigFiles)
    /\ bestByTarget' = scanSig(bestByTarget, tree, sigFiles[sigIdx])
    /\ sigIdx' = sigIdx + 1
    /\ UNCHANGED <<tree, tagName, latestJson, g_pc, sigFiles, g_exit>>
    /\ UNCHANGED <<argv, g_run, firstJson>>
    /\ UNCHANGED <<prog, b_vars, e_vars, v_vars, c_vars, p_vars, w_vars,
                 r_vars, o_vars, u_vars, s_vars, m_vars>>

\* lines 138-142: the uncaught Error ends the process with code 1
ThrowNoArtifacts ==
    /\ g_pc = "scan"
    /\ sigIdx > Len(sigFiles)
    /\ noArtifacts(bestByTarget)
    /\ g_pc' = "exited"
    /\ g_exit' = 1
    /\ UNCHANGED <<tree, tagName, latestJson, sigFiles, sigIdx, bestByTarget>>
    /\ UNCHANGED <<argv, g_run, firstJson>>
    /\ UNCHANGED <<prog, b_vars, e_vars, v_vars, c_vars, p_vars, w_vars,
                 r_vars, o_vars, u_vars, s_vars, m_vars>>

\* lines 144-166
WriteManifest ==
    /\ g_pc = "scan"
    /\ sigIdx > Len(sigFiles)
    /\ ~noArtifacts(bestByTarget)
    /\ \E stamp \in PubDates :
          latestJson' = manifestOf(version, tagName, stamp,
                                   platformsOf(<<>>, bestByTarget))
    /\ tree' = writeFile(tree, latestPath)
    /\ g_pc' = "exited"
    /\ g_exit' = 0
    /\ UNCHANGED <<tagName, sigFiles, sigIdx, bestByTarget>>
    /\ UNCHANGED <<argv, g_run, firstJson>>
    /\ UNCHANGED <<prog, b_vars, e_vars, v_vars, c_vars, p_vars, w_vars,
                 r_vars, o_vars, u_vars, s_vars, m_vars>>

g_Next == ScanSig \/ ThrowNoArtifacts \/ WriteManifest

(***************************************************************************)
(* The generator from its first line: the arguments as the shell passed    *)
(* them.                                                                   *)
(***************************************************************************)
ArgvChoices ==
    [assetsDirArg : {"", assetsDir}, tagNameArg : {""} \cup Tags,
     githubRepoArg : {"", githubRepo}]

\* a test of the first argument only
argsMissingFirstOnly(a) == a.assetsDirArg = ""

\* line 12: an argument that was not given, or is empty, is falsy
argsMissing(a) == a.assetsDirArg = "" \/ a.tagNameArg = "" \/ a.githubRepoArg = ""

\* The process at line 11; the assets directory exists and holds what a
\* signing run left.
g_InitArgs ==
    /\ \E picks \in AssetSeqs : tree = TreeOf(picks)
    /\ latestJson = Absent
    /\ argv \in ArgvChoices
    /\ tagName = ""
    /\ sigFiles = <<>>
    /\ g_pc = "args"
    /\ sigIdx = 0
    /\ bestByTarget = <<>>
    /\ g_exit = -1
    /\ g_run = 1
    /\ firstJson = Absent

\* lines 6-9 and 12-14: usage on stderr, process.exit(1)
UsageAndExit ==
    /\ g_pc = "args"
    /\ argsMissing(argv)
    /\ g_pc' = "exited"
    /\ g_exit' = 1
    /\ UNCHANGED <<tree, tagName, latestJson, sigFiles, sigIdx, bestByTarget>>
    /\ UNCHANGED <<argv, g_run, firstJson>>
    /\ UNCHANGED <<prog, b_vars, e_vars, v_vars, c_vars, p_vars, w_vars,
                 r_vars, o_vars, u_vars, s_vars, m_vars>>

\* lines 16-102: the arguments are trimmed, the directory is walked
AcceptArgs ==
    /\ g_pc = "args"
    /\ ~argsMissing(argv)
    /\ tagName' = trim(argv.tagNameArg)
    /\ sigFiles' = sigFilesOf(tree)
    /\ sigIdx' = 1
    /\ g_pc' = "scan"
    /\ UNCHANGED <<tree, latestJson, bestByTarget, g_exit>>
    /\ UNCHANGED <<argv, g_run, firstJson>>
    /\ UNCHANGED <<prog, b_vars, e_vars, v_vars, c_vars, p_vars, w_vars,
                 r_vars, o_vars, u_vars, s_vars, m_vars>>

\* The same command run a second time on the directory the first run wrote
\* latest.json into: a new process, at line 102 again.
Rerun ==
    /\ g_pc = "exited"
    /\ g_exit = 0
    /\ g_run = 1
    /\ g_run' = 2
    /\ firstJson' = latestJson
    /\ sigFiles' = sigFilesOf(tree)
    /\ sigIdx' = 1
    /\ bestByTarget' = <<>>
    /\ g_pc' = "scan"
    /\ g_exit' = -1
    /\ UNCHANGED <<tree, tagName, latestJson, argv>>
    /\ UNCHANGED <<prog, b_vars, e_vars, v_vars, c_vars, p_vars, w_vars,
                 r_vars, o_vars, u_vars, s_vars, m_vars>>

(***************************************************************************)
(* Offline bundle builder: versions.                                       *)
(***************************************************************************)
OPENCLAW_MIN_NODE == "22.12.0"

RECURSIVE takeDigits(_)
takeDigits(s) ==
    IF s # "" /\ IsIn(Head(s), DigitChars) THEN Head(s) \o takeDigits(Tail(s)) ELSE ""

DigitValue(c) == (CHOOSE i \in 1..10 : CharAt(DigitChars, i) = c) - 1

RECURSIVE NumberFrom(_, _)
NumberFrom(acc, s) ==
    IF s = "" THEN acc ELSE NumberFrom(10 * acc + DigitValue(Head(s)), Tail(s))

Number(s) == NumberFrom(0, s)

NoMatch == [matched |-> FALSE]

\* String(v).trim().match(/^v?(\d+)\.(\d+)\.(\d+)/)
parseVersionNoV(v) ==
    LET s1 == trim(v)
        d1 == takeDigits(s1)
        s2 == SubSeq(s1, Len(d1) + 1, Len(s1))
        d2 == takeDigits(IF s2 = "" THEN "" ELSE Tail(s2))
        s3 == SubSeq(s2, Len(d2) + 2, Len(s2))
        d3 == takeDigits(IF s3 = "" THEN "" ELSE Tail(s3))
    IN  IF /\ d1 # "" /\ startsWith(s2, ".")
           /\ d2 # "" /\ startsWith(s3, ".")
           /\ d3 # ""
        THEN [matched |-> TRUE, major |-> Number(d1), minor |-> Number(d2),
              patch |-> Number(d3)]
        ELSE NoMatch

parseVersion(v) ==
    LET s0 == trim(v)
        s1 == IF startsWith(s0, "v") THEN Tail(s0) ELSE s0
        d1 == takeDigits(s1)
        s2 == SubSeq(s1, Len(d1) + 1, Len(s1))
        d2 == takeDigits(IF s2 = "" THEN "" ELSE Tail(s2))
        s3 == SubSeq(s2, Len(d2) + 2, Len(s2))
        d3 == takeDigits(IF s3 = "" THEN "" ELSE Tail(s3))
    IN  IF /\ d1 # "" /\ startsWith(s2, ".")
           /\ d2 # "" /\ startsWith(s3, ".")
           /\ d3 # ""
        THEN [matched |-> TRUE, major |-> Number(d1), minor |-> Number(d2),
              patch |-> Number(d3)]
        ELSE NoMatch

versionGteNoMinor(left, right) ==
    LET a == parseVersion(left)
        b == parseVersion(right)
    IN  IF ~a.matched \/ ~b.matched THEN FALSE
        ELSE IF a.major # b.major THEN a.major > b.major
        ELSE a.patch >= b.patch

versionGte(left, right) ==
    LET a == parseVersion(left)
        b == parseVersion(right)
    IN  IF ~a.matched \/ ~b.matched THEN FALSE
        ELSE IF a.major # b.major THEN a.major > b.major
        ELSE IF a.minor # b.minor THEN a.minor > b.minor
        ELSE a.patch >= b.patch

(***************************************************************************)
(* Offline bundle builder: the build host.                                 *)
(***************************************************************************)
openclawRoot == "openclaw"
bundleDir    == "resources/openclaw-bundle"
tempDir      == ".tmp/openclaw-bundle"

Under(p, dir) == p = dir \/ startsWith(p, dir \o "/")

\* fsp.rm(p, {recursive: true, force: true})
rmrf(paths, p) == {q \in paths : ~Under(q, p)}

\* fsp.mkdir(p, {recursive: true}), and a copy to p
mkdirp(paths, p) == paths \cup {p}

ensureDirOnly(paths, p) == mkdirp(paths, p)

ensureCleanDir(paths, p) == mkdirp(rmrf(paths, p), p)

\* A node executable: what it prints for -v, and the version it is.  The
\* last one prints no version at all.
NodeVersions == { <<22, 12, 0>>, <<22, 11, 9>>, <<9, 99, 99>>, <<100, 0, 0>> }

NodeBinaries ==
    { [out    |-> "v" \o ToString(t[1]) \o "." \o ToString(t[2]) \o "." \o ToString(t[3]),
       triple |-> t] : t \in NodeVersions }
    \cup { [out |-> "node: bad option", triple |-> <<>>] }

\* the local source tree: its package.json and whether dist/entry.(m)js is there
SourceTrees == [packageJson : {"ok", "missing", "malformed"}, dist : BOOLEAN]

Envs ==
    [ OPENCLAW_DESKTOP_SKIP_BUNDLE_PREP : {"", "1"},
      OPENCLAW_BUNDLE_SKIP_VERIFY       : {"", "1"},
      OPENCLAW_BUNDLE_NODE              : {"", "/opt/node-missing", "/opt/node"},
      source                            : SourceTrees ]

NoEnv     == [source |-> "none"]
NoPacked  == [source |-> "none"]
NoRuntime == [nodeSource |-> "none"]

\* fs.existsSync(customNode): of the override paths only /opt/node exists
existsOverride(customNode) == customNode = "/opt/node"

\* localOpenclawBuildReady without the test for package.json
localBuildReadyEntryOnly(src) == src.dist

localOpenclawBuildReady(src) == src.packageJson # "missing" /\ src.dist

resolveLocalOpenclawVersion(src) == IF src.packageJson = "ok" THEN "2026.1.1" ELSE Null

b_Idle ==
    /\ fs = {}
    /\ builds = 0
    /\ env = NoEnv
    /\ b_pc = "off"
    /\ packed = NoPacked
    /\ runtime = NoRuntime
    /\ verify = "none"
    /\ cmds = <<>>
    /\ b_exit = -1

\* a fresh checkout: neither the bundle directory nor the scratch directory
b_Init ==
    /\ fs = {}
    /\ builds = 0
    /\ env = NoEnv
    /\ b_pc = "idle"
    /\ packed = NoPacked
    /\ runtime = NoRuntime
    /\ verify = "none"
    /\ cmds = <<>>
    /\ b_exit = -1

\* run(cmd, args): the command, its exit status and what it printed
ran(log, cmd, status, out) == Append(log, [cmd |-> cmd, status |-> status, out |-> out])

\* main().catch: process.exit(1)
Fail(paths, log) ==
    /\ fs' = paths
    /\ cmds' = log
    /\ b_pc' = "exited"
    /\ b_exit' = 1

(***************************************************************************)
(* Offline bundle builder: main, one action per stage.  A stage that       *)
(* throws ends the build through main().catch with exit code 1.            *)
(***************************************************************************)
\* lines 483-487: the start of a build, with its environment
skipPrepareNever(e) == FALSE

\* line 484
skipPrepare(e) == e.OPENCLAW_DESKTOP_SKIP_BUNDLE_PREP = "1"

StartBuild ==
    /\ b_pc \in {"idle", "exited"}
    /\ builds < MaxBuilds
    /\ builds' = builds + 1
    /\ \E e \in Envs :
          /\ env' = e
          /\ IF skipPrepare(e)
             THEN b_pc' = "exited" /\ b_exit' = 0
             ELSE b_pc' = "clean" /\ b_exit' = -1
    /\ packed' = NoPacked
    /\ runtime' = NoRuntime
    /\ verify' = "none"
    /\ cmds' = <<>>
    /\ UNCHANGED fs
    /\ UNCHANGED <<prog, g_vars, e_vars, v_vars, c_vars, p_vars, w_vars,
                 r_vars, o_vars, u_vars, s_vars, m_vars>>

\* lines 489-490
CleanDirs ==
    /\ b_pc = "clean"
    /\ fs' = ensureCleanDir(ensureCleanDir(fs, bundleDir), tempDir)
    /\ b_pc' = "pack"
    /\ UNCHANGED <<builds, env, packed, runtime, verify, cmds, b_exit>>
    /\ UNCHANGED <<prog, g_vars, e_vars, v_vars, c_vars, p_vars, w_vars,
                 r_vars, o_vars, u_vars, s_vars, m_vars>>

\* lines 415-436 with npmPack, lines 368-390
packCwd(src) == IF localOpenclawBuildReady(src) THEN openclawRoot ELSE tempDir

packSpec(src) ==
    IF resolveLocalOpenclawVersion(src) # Null
    THEN "openclaw@" \o resolveLocalOpenclawVersion(src)
    ELSE "openclaw@latest"

PackTarball ==
    /\ b_pc = "pack"
    /\ LET local      == localOpenclawBuildReady(env.source)
           packedFile == pathJoin(packCwd(env.source), "openclaw.tgz")
           cmd        == IF local THEN "npm pack --ignore-scripts"
                         ELSE "npm pack " \o packSpec(env.source)
       IN  \E outcome \in {"ok", "failed", "no-file"} :
           LET log == ran(cmds, cmd, IF outcome = "failed" THEN 1 ELSE 0, "")
           IN IF outcome = "ok"
              THEN /\ fs' = fs \cup {packedFile}
                   /\ packed' = [packedFile |-> packedFile,
                                 source |-> IF local THEN "local-source"
                                            ELSE "npm-registry:" \o packSpec(env.source)]
                   /\ cmds' = log
                   /\ b_pc' = "runtime"
                   /\ UNCHANGED b_exit
              ELSE /\ Fail(fs, log)
                   /\ UNCHANGED packed
    /\ UNCHANGED <<builds, env, runtime, verify>>
    /\ UNCHANGED <<prog, g_vars, e_vars, v_vars, c_vars, p_vars, w_vars,
                 r_vars, o_vars, u_vars, s_vars, m_vars>>

\* versionGte(<what -v printed>, OPENCLAW_MIN_NODE) for every executable of
\* the model, computed once
reportsEnough ==
    [out \in {b.out : b \in NodeBinaries} |-> versionGte(out, OPENCLAW_MIN_NODE)]

\* lines 438-449: the override is used when it exists and its version is enough
\* useOverride without the version test
useOverrideUnversioned(customNode, customVersion) ==
    /\ customNode # ""
    /\ existsOverride(customNode)

useOverride(customNode, customVersion) ==
    /\ customNode # ""
    /\ existsOverride(customNode)
    /\ reportsEnough[customVersion]

\* lines 469-474
bundledNodeAccepted(bundledNodeVersion) == reportsEnough[bundledNodeVersion]

nodeProvisionPrefix == pathJoin(tempDir, "node-runtime")
bundledNodePath == pathJoin(nodeProvisionPrefix, "node_modules/node/bin/node")

\* lines 438-481.  custom is the executable at the override path, bundled the
\* one npm installs; outcome says which external command or check, if any,
\* fails.
ResolveRuntime ==
    /\ b_pc = "runtime"
    /\ \E custom \in NodeBinaries, bundled \in NodeBinaries,
          outcome \in {"ok", "custom-v-failed", "install-failed",
                       "node-missing", "bundled-v-failed"} :
          LET customNode == env.OPENCLAW_BUNDLE_NODE
              probed     == customNode # "" /\ existsOverride(customNode)
              log0       == IF ~probed THEN cmds
                            ELSE IF outcome = "custom-v-failed"
                                 THEN ran(cmds, customNode \o " -v", 1, "")
                                 ELSE ran(cmds, customNode \o " -v", 0, custom.out)
              fs1        == ensureCleanDir(fs, nodeProvisionPrefix)
              log1       == ran(log0, "npm install node@" \o OPENCLAW_MIN_NODE,
                                IF outcome = "install-failed" THEN 1 ELSE 0, "")
              log2       == IF outcome = "bundled-v-failed"
                            THEN ran(log1, bundledNodePath \o " -v", 1, "")
                            ELSE ran(log1, bundledNodePath \o " -v", 0, bundled.out)
          IN  /\ ~probed => custom.triple = <<>>
              /\ CASE probed /\ outcome = "custom-v-failed" ->
                        Fail(fs, log0) /\ UNCHANGED runtime
                   [] outcome # "custom-v-failed" /\ useOverride(customNode, custom.out) ->
                        /\ outcome = "ok" /\ bundled.triple = <<>>
                        /\ runtime' = [nodePath |-> customNode, nodeVersion |-> custom.out,
                                       nodeSource |-> "env:OPENCLAW_BUNDLE_NODE"]
                        /\ cmds' = log0
                        /\ fs' = fs
                        /\ b_pc' = "copyTgz"
                        /\ UNCHANGED b_exit
                   [] outcome = "install-failed" /\ ~useOverride(customNode, custom.out) ->
                        Fail(fs1, log1) /\ UNCHANGED runtime
                   [] outcome = "node-missing" /\ ~useOverride(customNode, custom.out) ->
                        Fail(fs1, log1) /\ UNCHANGED runtime
                   [] outcome = "bundled-v-failed" /\ ~useOverride(customNode, custom.out) ->
                        Fail(fs1 \cup {bundledNodePath}, log2) /\ UNCHANGED runtime
                   [] outcome = "ok" /\ ~useOverride(customNode, custom.out) ->
                        IF bundledNodeAccepted(bundled.out)
                        THEN /\ runtime' = [nodePath |-> bundledNodePath,
                                            nodeVersion |-> bundled.out,
                                            nodeSource |-> "npm:node@" \o OPENCLAW_MIN_NODE]
                             /\ cmds' = log2
                             /\ fs' = fs1 \cup {bundledNodePath}
                             /\ b_pc' = "copyTgz"
                             /\ UNCHANGED b_exit
                        ELSE Fail(fs1 \cup {bundledNodePath}, log2) /\ UNCHANGED runtime
                   [] OTHER -> FALSE
    /\ UNCHANGED <<builds, env, packed, verify>>
    /\ UNCHANGED <<prog, g_vars, e_vars, v_vars, c_vars, p_vars, w_vars,
                 r_vars, o_vars, u_vars, s_vars, m_vars>>

bundledTgz     == pathJoin(bundleDir, "openclaw.tgz")
nodeDir        == pathJoin(bundleDir, "node")
nodeTarget     == pathJoin(nodeDir, "node")
npmTarget      == pathJoin(bundleDir, "npm")
cacheDir       == pathJoin(bundleDir, "npm-cache")
installPrefix  == pathJoin(tempDir, "install-prefix")
bundledPrefix  == pathJoin(bundleDir, "prefix")
verifyPrefix   == pathJoin(tempDir, "verify-prefix")
manifestPath   == pathJoin(bundleDir, "manifest.json")

\* lines 424 and 434: only a local pack removes its packed file
cleanup(paths, pk) ==
    IF pk.source = "local-source" THEN paths \ {pk.packedFile} ELSE paths

\* lines 495-497
CopyTgz ==
    /\ b_pc = "copyTgz"
    /\ fs' = cleanup(fs \cup {bundledTgz}, packed)
    /\ b_pc' = "copyNode"
    /\ UNCHANGED <<builds, env, packed, runtime, verify, cmds, b_exit>>
    /\ UNCHANGED <<prog, g_vars, e_vars, v_vars, c_vars, p_vars, w_vars,
                 r_vars, o_vars, u_vars, s_vars, m_vars>>

\* lines 499-507
CopyNode ==
    /\ b_pc = "copyNode"
    /\ fs' = ensureCleanDir(fs, nodeDir) \cup {nodeTarget}
    /\ b_pc' = "copyNpm"
    /\ UNCHANGED <<builds, env, packed, runtime, verify, cmds, b_exit>>
    /\ UNCHANGED <<prog, g_vars, e_vars, v_vars, c_vars, p_vars, w_vars,
                 r_vars, o_vars, u_vars, s_vars, m_vars>>

\* lines 509-516 with resolveNpmDir, lines 350-366
CopyNpm ==
    /\ b_pc = "copyNpm"
    /\ \E found \in {"root", "prefix", "nowhere"} :
          LET log == IF found = "root" THEN ran(cmds, "npm root -g", 0, "")
                     ELSE ran(ran(cmds, "npm root -g", 0, ""),
                              "npm config get prefix", 0, "")
          IN  IF found = "nowhere"
              THEN Fail(fs, log)
              ELSE /\ fs' = rmrf(fs, npmTarget) \cup {npmTarget}
                   /\ cmds' = log
                   /\ b_pc' = "warm"
                   /\ UNCHANGED b_exit
    /\ UNCHANGED <<builds, env, packed, runtime, verify>>
    /\ UNCHANGED <<prog, g_vars, e_vars, v_vars, c_vars, p_vars, w_vars,
                 r_vars, o_vars, u_vars, s_vars, m_vars>>

\* lines 518-532
WarmCache ==
    /\ b_pc = "warm"
    /\ \E status \in {0, 1} :
          LET log == ran(cmds, "npm install " \o bundledTgz \o " --cache " \o cacheDir,
                         status, "")
          IN  IF status = 0
              THEN /\ fs' = fs \cup {cacheDir, installPrefix}
                   /\ cmds' = log
                   /\ b_pc' = "snapshot"
                   /\ UNCHANGED b_exit
              ELSE Fail(fs \cup {cacheDir}, log)
    /\ UNCHANGED <<builds, env, packed, runtime, verify>>
    /\ UNCHANGED <<prog, g_vars, e_vars, v_vars, c_vars, p_vars, w_vars,
                 r_vars, o_vars, u_vars, s_vars, m_vars>>

\* lines 534-538
SnapshotPrefix ==
    /\ b_pc = "snapshot"
    /\ fs' = rmrf(fs, bundledPrefix) \cup {bundledPrefix}
    /\ b_pc' = "verify"
    /\ UNCHANGED <<builds, env, packed, runtime, verify, cmds, b_exit>>
    /\ UNCHANGED <<prog, g_vars, e_vars, v_vars, c_vars, p_vars, w_vars,
                 r_vars, o_vars, u_vars, s_vars, m_vars>>

\* where main goes after the verification block of lines 540-557
afterVerifyAlways(how) == "manifest"

afterVerify(how) == IF how \in {"ok", "skipped"} THEN "manifest" ELSE "failed"

\* lines 540-557.  how: the switch is set ("skipped"), no executable is found
\* in the copy ("missing"), --version exits non-zero ("nonzero") or zero ("ok").
VerifySnapshot ==
    /\ b_pc = "verify"
    /\ \E how \in {"skipped", "missing", "nonzero", "ok"} :
          /\ how = "skipped" <=> env.OPENCLAW_BUNDLE_SKIP_VERIFY = "1"
          /\ verify' = how
          /\ LET log == IF how \in {"nonzero", "ok"}
                        THEN ran(cmds, pathJoin(verifyPrefix, "bin/openclaw") \o " --version",
                                 IF how = "ok" THEN 0 ELSE 1, "")
                        ELSE cmds
                 fs1 == CASE how = "skipped" -> fs
                          [] how = "ok"      -> rmrf(fs \cup {verifyPrefix}, verifyPrefix)
                          [] OTHER           -> fs \cup {verifyPrefix}
             IN  IF afterVerify(how) = "failed"
                 THEN Fail(fs1, log)
                 ELSE /\ fs' = fs1
                      /\ cmds' = log
                      /\ b_pc' = afterVerify(how)
                      /\ UNCHANGED b_exit
    /\ UNCHANGED <<builds, env, packed, runtime>>
    /\ UNCHANGED <<prog, g_vars, e_vars, v_vars, c_vars, p_vars, w_vars,
                 r_vars, o_vars, u_vars, s_vars, m_vars>>

\* lines 558-580
WriteBundleManifest ==
    /\ b_pc = "manifest"
    /\ fs' = rmrf(fs, installPrefix) \cup {manifestPath}
    /\ b_pc' = "writable"
    /\ UNCHANGED <<builds, env, packed, runtime, verify, cmds, b_exit>>
    /\ UNCHANGED <<prog, g_vars, e_vars, v_vars, c_vars, p_vars, w_vars,
                 r_vars, o_vars, u_vars, s_vars, m_vars>>

\* lines 582-584
MakeWritable ==
    /\ b_pc = "writable"
    /\ b_pc' = "rmtemp"
    /\ UNCHANGED <<fs, builds, env, packed, runtime, verify, cmds, b_exit>>
    /\ UNCHANGED <<prog, g_vars, e_vars, v_vars, c_vars, p_vars, w_vars,
                 r_vars, o_vars, u_vars, s_vars, m_vars>>

\* lines 586-588: main returns and the process ends with code 0
RemoveTemp ==
    /\ b_pc = "rmtemp"
    /\ fs' = rmrf(fs, tempDir)
    /\ b_pc' = "exited"
    /\ b_exit' = 0
    /\ UNCHANGED <<builds, env, packed, runtime, verify, cmds>>
    /\ UNCHANGED <<prog, g_vars, e_vars, v_vars, c_vars, p_vars, w_vars,
                 r_vars, o_vars, u_vars, s_vars, m_vars>>

b_Next ==
    \/ StartBuild
    \/ CleanDirs
    \/ PackTarball
    \/ ResolveRuntime
    \/ CopyTgz
    \/ CopyNode
    \/ CopyNpm
    \/ WarmCache
    \/ SnapshotPrefix
    \/ VerifySnapshot
    \/ WriteBundleManifest
    \/ MakeWritable
    \/ RemoveTemp

(***************************************************************************)
(* Offline end-to-end validator: main, one action per step.  A step that   *)
(* throws outside the try block ends the validator through main().catch.   *)
(***************************************************************************)
TimeoutSec == 90    \* waitForHttp(url, 90_000)
SleepSec == 1       \* sleep(1000)

\* the validator's process.env: a plain one, one behind a proxy, and one
\* that has USERPROFILE and no HOME
ProcessEnvs ==
    { [HOME |-> "/home/user", USERPROFILE |-> "", HTTP_PROXY |-> "",
       HTTPS_PROXY |-> "", ALL_PROXY |-> "", NO_PROXY |-> "", PATH |-> "/usr/bin"],
      [HOME |-> "/home/user", USERPROFILE |-> "",
       HTTP_PROXY |-> "http://proxy.corp:3128", HTTPS_PROXY |-> "http://proxy.corp:3128",
       ALL_PROXY |-> "", NO_PROXY |-> "corp", PATH |-> "/usr/bin"],
      [HOME |-> "", USERPROFILE |-> "/Users/user",
       HTTP_PROXY |-> "http://proxy.corp:3128", HTTPS_PROXY |-> "",
       ALL_PROXY |-> "socks5://proxy.corp:1080", NO_PROXY |-> "", PATH |-> "/usr/bin"] }

\* line 60
realHome(processEnv) ==
    IF processEnv.HOME # "" THEN processEnv.HOME ELSE processEnv.USERPROFILE

\* line 64
authPath(processEnv) == pathJoin(pathJoin(realHome(processEnv), ".codex"), "auth.json")

\* lines 13 and 143: the snapshot of the bundle
e2eBundledPrefix == "src-tauri/bundle/resources/openclaw-bundle/prefix"

\* lines 145-148, with os.tmpdir() = /tmp
tempRootPath == "/tmp/openclaw-offline-e2e-a1b2c3"
tempHome == pathJoin(tempRootPath, "home")
prefixDir == pathJoin(tempHome, ".openclaw")
codexDir == pathJoin(tempHome, ".codex")

BlockedProxy == "http://127.0.0.1:9"

\* the children get the validator's own environment
blockedEnvInherited(processEnv) == processEnv

\* lines 152-160
blockedEnv(processEnv) ==
    [processEnv EXCEPT !.HOME = tempHome,
                       !.USERPROFILE = tempHome,
                       !.HTTP_PROXY = BlockedProxy,
                       !.HTTPS_PROXY = BlockedProxy,
                       !.ALL_PROXY = BlockedProxy,
                       !.NO_PROXY = "127.0.0.1,localhost"]

\* lines 185-192, with the bundled node in resources/openclaw-bundle/node
appEnv(processEnv) ==
    [blockedEnv(processEnv) EXCEPT
        !.PATH = pathJoin(prefixDir, "bin") \o ":"
                 \o "src-tauri/bundle/resources/openclaw-bundle/node" \o ":"
                 \o processEnv.PATH]

e_Idle ==
    /\ e_pc = "off"
    /\ tempRoot = "none"
    /\ onboardRuns = <<>>
    /\ gateway = "none"
    /\ killed = FALSE
    /\ now = 0
    /\ deadline = 0
    /\ okStart = -1
    /\ e_exit = -1
    /\ e_env = [HOME |-> ""]
    /\ e_reads = {}
    /\ e_writes = {}
    /\ e_children = <<>>

e_Init ==
    /\ e_pc = "auth"
    /\ tempRoot = "none"
    /\ onboardRuns = <<>>
    /\ gateway = "none"
    /\ killed = FALSE
    /\ now = 0
    /\ deadline = 0
    /\ okStart = -1
    /\ e_exit = -1
    /\ e_env \in ProcessEnvs
    /\ e_reads = {}
    /\ e_writes = {}
    /\ e_children = <<>>

\* main().catch: process.exit(1)
e_Fail ==
    /\ e_pc' = "exited"
    /\ e_exit' = 1

\* a step that an external command or a check either passes or fails
e_Step(from, to) ==
    /\ e_pc = from
    /\ \E ok \in BOOLEAN :
          IF ok THEN e_pc' = to /\ UNCHANGED e_exit ELSE e_Fail

\* line 142 with readCodexAuth, lines 59-74
ReadCodexAuth ==
    /\ e_Step("auth", "tools")
    /\ UNCHANGED <<tempRoot, onboardRuns, gateway, killed, now, deadline, okStart>>
    /\ e_reads' = e_reads \cup {authPath(e_env)}
    /\ UNCHANGED <<e_env, e_writes, e_children>>
    /\ UNCHANGED <<prog, g_vars, b_vars, v_vars, c_vars, p_vars, w_vars,
                 r_vars, o_vars, u_vars, s_vars, m_vars>>

\* line 143 with resolveBundledTools, lines 76-100
ResolveBundledTools ==
    /\ e_Step("tools", "mktemp")
    /\ UNCHANGED <<tempRoot, onboardRuns, gateway, killed, now, deadline, okStart>>
    /\ UNCHANGED e_io
    /\ UNCHANGED <<prog, g_vars, b_vars, v_vars, c_vars, p_vars, w_vars,
                 r_vars, o_vars, u_vars, s_vars, m_vars>>

\* lines 145-150
MakeTempHome ==
    /\ e_pc = "mktemp"
    /\ tempRoot' = "exists"
    /\ e_pc' = "install"
    /\ UNCHANGED <<onboardRuns, gateway, killed, now, deadline, okStart, e_exit>>
    /\ e_writes' = e_writes \cup {tempRootPath, codexDir, pathJoin(codexDir, "auth.json")}
    /\ UNCHANGED <<e_env, e_reads, e_children>>
    /\ UNCHANGED <<prog, g_vars, b_vars, v_vars, c_vars, p_vars, w_vars,
                 r_vars, o_vars, u_vars, s_vars, m_vars>>

\* lines 164-182: the copy of the snapshot, or the offline npm install
InstallOffline ==
    /\ e_Step("install", "resolve")
    /\ \E snapshot \in BOOLEAN :
          IF snapshot
          THEN /\ e_reads' = e_reads \cup {e2eBundledPrefix}
               /\ e_writes' = e_writes \cup {prefixDir}
               /\ UNCHANGED e_children
          ELSE /\ e_children' = Append(e_children,
                     [cmd |-> "npm install --offline", env |-> blockedEnv(e_env)])
               /\ UNCHANGED <<e_reads, e_writes>>
    /\ UNCHANGED e_env
    /\ UNCHANGED <<tempRoot, onboardRuns, gateway, killed, now, deadline, okStart>>
    /\ UNCHANGED <<prog, g_vars, b_vars, v_vars, c_vars, p_vars, w_vars,
                 r_vars, o_vars, u_vars, s_vars, m_vars>>

\* line 184 with resolveInstalledOpenclaw, lines 102-125
ResolveInstalled ==
    /\ e_Step("resolve", "setup")
    /\ UNCHANGED <<tempRoot, onboardRuns, gateway, killed, now, deadline, okStart>>
    /\ UNCHANGED e_io
    /\ UNCHANGED <<prog, g_vars, b_vars, v_vars, c_vars, p_vars, w_vars,
                 r_vars, o_vars, u_vars, s_vars, m_vars>>

\* line 195
RunSetup ==
    /\ e_Step("setup", "onboard")
    /\ UNCHANGED <<tempRoot, onboardRuns, gateway, killed, now, deadline, okStart>>
    /\ e_children' = Append(e_children, [cmd |-> "setup", env |-> appEnv(e_env)])
    /\ UNCHANGED <<e_env, e_reads, e_writes>>
    /\ UNCHANGED <<prog, g_vars, b_vars, v_vars, c_vars, p_vars, w_vars,
                 r_vars, o_vars, u_vars, s_vars, m_vars>>

\* how one run of the onboard subcommand ends: the message is that of the
\* Error that run throws on a non-zero exit
OnboardOutcomes ==
    { [ok |-> TRUE, msg |-> ""],
      [ok |-> FALSE, msg |-> "openclaw onboard failed: OAuth requires interactive mode"],
      [ok |-> FALSE, msg |-> "openclaw onboard failed: exit code 1"] }

\* a fallback on every failure
fallbackOnAnyError(msg) == TRUE

\* line 214
isOAuthRejection(msg) == includes(msg, "OAuth requires interactive mode")

\* lines 196-220: onboardRuns records each run of the subcommand with the
\* value of --auth-choice it was given
Onboard ==
    /\ e_pc = "onboard"
    /\ \E first \in OnboardOutcomes, second \in OnboardOutcomes :
          LET run1  == [authChoice |-> "openai-codex", ok |-> first.ok, msg |-> first.msg]
              run2  == [authChoice |-> "skip", ok |-> second.ok, msg |-> second.msg]
              retry == ~first.ok /\ isOAuthRejection(first.msg)
          IN  /\ ~retry => second = first
              /\ onboardRuns' = IF retry THEN << run1, run2 >> ELSE << run1 >>
              /\ e_children' = e_children
                    \o [k \in 1..(IF retry THEN 2 ELSE 1) |->
                           [cmd |-> "onboard", env |-> appEnv(e_env)]]
              /\ IF first.ok \/ (retry /\ second.ok)
                 THEN e_pc' = "spawn" /\ UNCHANGED e_exit
                 ELSE e_Fail
    /\ UNCHANGED <<tempRoot, gateway, killed, now, deadline, okStart>>
    /\ UNCHANGED <<e_env, e_reads, e_writes>>
    /\ UNCHANGED <<prog, g_vars, b_vars, v_vars, c_vars, p_vars, w_vars,
                 r_vars, o_vars, u_vars, s_vars, m_vars>>

\* lines 231-249 and the first line of waitForHttp, line 46
SpawnGateway ==
    /\ e_pc = "spawn"
    /\ gateway' = "running"
    /\ now' = 0
    /\ deadline' = TimeoutSec
    /\ e_pc' = "wait"
    /\ UNCHANGED <<tempRoot, onboardRuns, killed, okStart, e_exit>>
    /\ e_children' = Append(e_children, [cmd |-> "gateway", env |-> appEnv(e_env)])
    /\ UNCHANGED <<e_env, e_reads, e_writes>>
    /\ UNCHANGED <<prog, g_vars, b_vars, v_vars, c_vars, p_vars, w_vars,
                 r_vars, o_vars, u_vars, s_vars, m_vars>>

\* gateway.on("exit"): the service process may end by itself at any time
GatewayExits ==
    /\ gateway = "running"
    /\ e_pc # "exited"
    /\ gateway' = "exited"
    /\ UNCHANGED <<e_pc, tempRoot, onboardRuns, killed, now, deadline, okStart, e_exit>>
    /\ UNCHANGED e_io
    /\ UNCHANGED <<prog, g_vars, b_vars, v_vars, c_vars, p_vars, w_vars,
                 r_vars, o_vars, u_vars, s_vars, m_vars>>

\* line 47: Date.now() < deadline
loopGuardInclusive(t, d) == t <= d

loopGuard(t, d) == t < d

\* lines 47-55: one turn of the loop; the fetch takes took seconds
Poll ==
    /\ e_pc = "wait"
    /\ loopGuard(now, deadline)
    /\ \E took \in 0..MaxFetchSec, res \in {"ok", "not-ok", "throws"} :
          IF res = "ok"
          THEN /\ okStart' = now
               /\ now' = now + took
               /\ e_pc' = "finally"
          ELSE /\ now' = now + took + SleepSec
               /\ UNCHANGED <<okStart, e_pc>>
    /\ UNCHANGED <<tempRoot, onboardRuns, gateway, killed, deadline, e_exit>>
    /\ UNCHANGED e_io
    /\ UNCHANGED <<prog, g_vars, b_vars, v_vars, c_vars, p_vars, w_vars,
                 r_vars, o_vars, u_vars, s_vars, m_vars>>

\* lines 47 and 56, 253-262: waitForHttp returns false and main throws
WaitTimedOut ==
    /\ e_pc = "wait"
    /\ ~loopGuard(now, deadline)
    /\ e_pc' = "finally"
    /\ UNCHANGED <<tempRoot, onboardRuns, gateway, killed, now, deadline, okStart, e_exit>>
    /\ UNCHANGED e_io
    /\ UNCHANGED <<prog, g_vars, b_vars, v_vars, c_vars, p_vars, w_vars,
                 r_vars, o_vars, u_vars, s_vars, m_vars>>

\* line 265, reached with ready true or false
killOnlyWhenReady(ready) == ready

killInFinally(ready) == TRUE

\* lines 264-268, then the return of main (ready) or main().catch (not ready)
Finally ==
    /\ e_pc = "finally"
    /\ killed' = killInFinally(okStart >= 0)
    /\ now' = now + SleepSec
    /\ tempRoot' = "removed"
    /\ IF okStart >= 0
       THEN e_pc' = "returned" /\ UNCHANGED e_exit
       ELSE e_Fail
    /\ UNCHANGED <<onboardRuns, gateway, deadline, okStart>>
    /\ e_writes' = e_writes \cup {tempRootPath}
    /\ UNCHANGED <<e_env, e_reads, e_children>>
    /\ UNCHANGED <<prog, g_vars, b_vars, v_vars, c_vars, p_vars, w_vars,
                 r_vars, o_vars, u_vars, s_vars, m_vars>>

\* lines 271-274: after main returned nothing calls process.exit; node ends,
\* with code 0, when the service process it still holds has ended
ProcessEnds ==
    /\ e_pc = "returned"
    /\ gateway = "exited"
    /\ e_pc' = "exited"
    /\ e_exit' = 0
    /\ UNCHANGED <<tempRoot, onboardRuns, gateway, killed, now, deadline, okStart>>
    /\ UNCHANGED e_io
    /\ UNCHANGED <<prog, g_vars, b_vars, v_vars, c_vars, p_vars, w_vars,
                 r_vars, o_vars, u_vars, s_vars, m_vars>>

e_Main ==
    \/ ReadCodexAuth
    \/ ResolveBundledTools
    \/ MakeTempHome
    \/ InstallOffline
    \/ ResolveInstalled
    \/ RunSetup
    \/ Onboard
    \/ SpawnGateway
    \/ Poll
    \/ WaitTimedOut
    \/ Finally
    \/ ProcessEnds

e_Next == e_Main \/ GatewayExits

(***************************************************************************)
(* versionGte called on its own.  A version text is written from a triple  *)
(* of numbers: plain, with a leading v, or as node -v and a pre-release    *)
(* tag print it; some texts are no version at all.                         *)
(***************************************************************************)
Majors  == {9, 10, 22}
Minors  == {11, 12}
Patches == {0, 9}

Triples == Majors \X Minors \X Patches

Dotted(t) == ToString(t[1]) \o "." \o ToString(t[2]) \o "." \o ToString(t[3])

VersionForms == {"plain", "v", "v-suffix"}

Written(t, form) ==
    CASE form = "plain"    -> Dotted(t)
      [] form = "v"        -> "v" \o Dotted(t) \o "\n"
      [] form = "v-suffix" -> " v" \o Dotted(t) \o "-rc.1"

VersionTexts ==
    { [text |-> Written(t, form), triple |-> t] : t \in Triples, form \in VersionForms }
    \cup { [text |-> x, triple |-> <<>>] : x \in {"", "22.12", "V22.12.0", "node: bad option"} }

v_Idle ==
    /\ v_pc = "off"
    /\ v_left = [text |-> "", triple |-> <<>>]
    /\ v_right = [text |-> "", triple |-> <<>>]
    /\ v_verdict = FALSE

v_Init ==
    /\ v_pc = "call"
    /\ v_left \in VersionTexts
    /\ v_right \in VersionTexts
    /\ v_verdict = FALSE

\* lines 285-294
CallVersionGte ==
    /\ v_pc = "call"
    /\ v_verdict' = versionGte(v_left.text, v_right.text)
    /\ v_pc' = "returned"
    /\ UNCHANGED <<v_left, v_right>>
    /\ UNCHANGED <<prog, g_vars, b_vars, e_vars, c_vars, p_vars, w_vars,
                 r_vars, o_vars, u_vars, s_vars, m_vars>>

v_Next == CallVersionGte

(***************************************************************************)
(* The classification of one file name, lines 110-122, called on its own.  *)
(* A name is written from a stem, an architecture part and a suffix; each  *)
(* part records what it stands for.                                        *)
(***************************************************************************)
Stems ==
    { [text |-> "App",            setup |-> FALSE, portable |-> FALSE],
      [text |-> "App-Setup",      setup |-> TRUE,  portable |-> FALSE],
      [text |-> "app-portable",   setup |-> FALSE, portable |-> TRUE],
      [text |-> "Portable-setup", setup |-> TRUE,  portable |-> TRUE] }

\* arch: the architecture the part names, Null when it names none.  The last
\* three have the letters of a token that no delimiter sets apart.
ArchParts ==
    { [text |-> "",           arch |-> Null],
      [text |-> "_aarch64",   arch |-> "aarch64"],
      [text |-> "-arm64",     arch |-> "aarch64"],
      [text |-> "_ARM64",     arch |-> "aarch64"],
      [text |-> "_x86_64",    arch |-> "x86_64"],
      [text |-> ".x64",       arch |-> "x86_64"],
      [text |-> "_amd64",     arch |-> "x86_64"],
      [text |-> "_i686",      arch |-> "i686"],
      [text |-> "-x86",       arch |-> "i686"],
      [text |-> "_arm64_x64", arch |-> "aarch64"],
      [text |-> "-x86-amd64", arch |-> "x86_64"],
      [text |-> "arm64",      arch |-> Null],
      [text |-> "_x64bit",    arch |-> Null],
      [text |-> "_1x86",      arch |-> Null] }

\* os and points: the row of the suffix in the table of updater artifacts
Suffixes ==
    { [text |-> ".app.tar.gz",      os |-> "darwin",  points |-> 300],
      [text |-> ".exe",             os |-> "windows", points |-> 0],
      [text |-> ".msi",             os |-> "windows", points |-> 260],
      [text |-> ".MSI",             os |-> "windows", points |-> 260],
      [text |-> ".nsis.zip",        os |-> "windows", points |-> 220],
      [text |-> ".msi.zip",         os |-> "windows", points |-> 210],
      [text |-> ".deb",             os |-> "linux",   points |-> 240],
      [text |-> ".rpm",             os |-> "linux",   points |-> 230],
      [text |-> ".AppImage",        os |-> "linux",   points |-> 300],
      [text |-> ".appimage.tar.gz", os |-> "linux",   points |-> 300],
      [text |-> ".zip",             os |-> Null,      points |-> 0],
      [text |-> ".tar.gz",          os |-> Null,      points |-> 0],
      [text |-> ".dmg",             os |-> Null,      points |-> 0] }

FileNames ==
    { [text   |-> stem.text \o part.text \o suffix.text,
       stem   |-> stem,
       part   |-> part,
       suffix |-> suffix] : stem \in Stems, part \in ArchParts, suffix \in Suffixes }

NoFileName == [text |-> ""]

c_Idle ==
    /\ c_pc = "off"
    /\ c_fileName = NoFileName
    /\ c_lowerName = ""
    /\ c_targets = <<>>
    /\ c_baseScore = 0

c_Init ==
    /\ c_pc = "name"
    /\ c_fileName \in FileNames
    /\ c_lowerName = ""
    /\ c_targets = <<>>
    /\ c_baseScore = 0

\* line 111
LowerTheName ==
    /\ c_pc = "name"
    /\ c_lowerName' = toLowerCase(c_fileName.text)
    /\ c_pc' = "lower"
    /\ UNCHANGED <<c_fileName, c_targets, c_baseScore>>
    /\ UNCHANGED <<prog, g_vars, b_vars, e_vars, v_vars, p_vars, w_vars,
                 r_vars, o_vars, u_vars, s_vars, m_vars>>

\* line 112
CallDetectTargets ==
    /\ c_pc = "lower"
    /\ c_targets' = detectTargets(c_lowerName)
    /\ c_pc' = "targets"
    /\ UNCHANGED <<c_fileName, c_lowerName, c_baseScore>>
    /\ UNCHANGED <<prog, g_vars, b_vars, e_vars, v_vars, p_vars, w_vars,
                 r_vars, o_vars, u_vars, s_vars, m_vars>>

\* line 122
ScoreTheName ==
    /\ c_pc = "targets"
    /\ c_baseScore' = scoreCandidate(c_lowerName)
                      + (IF detectArch(c_lowerName) # Null THEN 20 ELSE 0)
    /\ c_pc' = "scored"
    /\ UNCHANGED <<c_fileName, c_lowerName, c_targets>>
    /\ UNCHANGED <<prog, g_vars, b_vars, e_vars, v_vars, p_vars, w_vars,
                 r_vars, o_vars, u_vars, s_vars, m_vars>>

c_Next == LowerTheName \/ CallDetectTargets \/ ScoreTheName

(***************************************************************************)
(* resolveInstalledOpenclaw, called on its own: the builder's copy and the *)
(* validator's, on either kind of host, over every combination of what is  *)
(* at the candidate paths of one install prefix.                           *)
(***************************************************************************)
Callers == {"builder", "validator"}
HostPlatforms == {"linux", "win32"}
PathKinds == {"none", "file", "dir"}

\* the prefix the function is called with
probePrefix == "prefix"

\* openclawBridge.ts lines 303-316
builderCandidates(platform) ==
    IF platform = "win32"
    THEN << pathJoin(probePrefix, "bin/openclaw.cmd"),
            pathJoin(probePrefix, "bin/openclaw.exe"),
            pathJoin(probePrefix, "node_modules/openclaw/openclaw.mjs"),
            pathJoin(probePrefix, "lib/node_modules/openclaw/openclaw.mjs"),
            pathJoin(probePrefix, "node_modules/.bin/openclaw.cmd") >>
    ELSE << pathJoin(probePrefix, "bin/openclaw"),
            pathJoin(probePrefix, "node_modules/openclaw/openclaw.mjs"),
            pathJoin(probePrefix, "lib/node_modules/openclaw/openclaw.mjs"),
            pathJoin(probePrefix, "node_modules/.bin/openclaw") >>

\* the validator's lines 103-116
validatorCandidates(platform) ==
    IF platform = "win32"
    THEN << pathJoin(probePrefix, "bin/openclaw.cmd"),
            pathJoin(probePrefix, "bin/openclaw.exe"),
            pathJoin(probePrefix, "node_modules/openclaw/openclaw.mjs"),
            pathJoin(probePrefix, "lib/node_modules/openclaw/openclaw.mjs"),
            pathJoin(probePrefix, "node_modules/.bin/openclaw.cmd") >>
    ELSE << pathJoin(probePrefix, "bin/openclaw"),
            pathJoin(probePrefix, "node_modules/openclaw/openclaw.mjs"),
            pathJoin(probePrefix, "lib/node_modules/openclaw/openclaw.mjs"),
            pathJoin(probePrefix, "node_modules/.bin/openclaw") >>

candidatesOf(caller, platform) ==
    IF caller = "builder" THEN builderCandidates(platform)
    ELSE validatorCandidates(platform)

\* fs.statSync(candidate).isFile(), false where statSync throws
isFile(kinds, candidate) == kinds[candidate] = "file"

p_Idle ==
    /\ p_pc = "off"
    /\ p_caller = ""
    /\ p_platform = ""
    /\ p_kinds = <<>>
    /\ p_index = 0
    /\ p_found = Null

p_Init ==
    /\ p_pc = "probe"
    /\ p_caller \in Callers
    /\ p_platform \in HostPlatforms
    /\ p_kinds \in [Range(candidatesOf(p_caller, p_platform)) -> PathKinds]
    /\ p_index = 1
    /\ p_found = Null

\* one turn of the loop whose candidate is no regular file
ProbeSkip ==
    /\ p_pc = "probe"
    /\ p_index <= Len(candidatesOf(p_caller, p_platform))
    /\ ~isFile(p_kinds, candidatesOf(p_caller, p_platform)[p_index])
    /\ p_index' = p_index + 1
    /\ UNCHANGED <<p_pc, p_caller, p_platform, p_kinds, p_found>>
    /\ UNCHANGED <<prog, g_vars, b_vars, e_vars, v_vars, c_vars, w_vars,
                 r_vars, o_vars, u_vars, s_vars, m_vars>>

\* the turn that returns
ProbeReturn ==
    /\ p_pc = "probe"
    /\ p_index <= Len(candidatesOf(p_caller, p_platform))
    /\ isFile(p_kinds, candidatesOf(p_caller, p_platform)[p_index])
    /\ p_found' = candidatesOf(p_caller, p_platform)[p_index]
    /\ p_pc' = "returned"
    /\ UNCHANGED <<p_caller, p_platform, p_kinds, p_index>>
    /\ UNCHANGED <<prog, g_vars, b_vars, e_vars, v_vars, c_vars, w_vars,
                 r_vars, o_vars, u_vars, s_vars, m_vars>>

\* the throw after the loop
ProbeThrow ==
    /\ p_pc = "probe"
    /\ p_index > Len(candidatesOf(p_caller, p_platform))
    /\ p_pc' = "threw"
    /\ UNCHANGED <<p_caller, p_platform, p_kinds, p_index, p_found>>
    /\ UNCHANGED <<prog, g_vars, b_vars, e_vars, v_vars, c_vars, w_vars,
                 r_vars, o_vars, u_vars, s_vars, m_vars>>

p_Next == ProbeSkip \/ ProbeReturn \/ ProbeThrow

(***************************************************************************)
(* ensureUserWritableRecursive(bundleDir), called on its own, over bundle  *)
(* directories that hold manifest.json and, or not, the copy of the npm    *)
(* directory (lines 509-516, a copy that keeps symbolic links) with a      *)
(* script and a symbolic link in it.  A node is [kind, mode, target]: mode *)
(* is the nine permission bits, those lstat reports; target is what a link *)
(* names.  One directory outside the bundle directory is on disk as well.  *)
(***************************************************************************)
OwnerWriteBit == 128

npmIndex == pathJoin(npmTarget, "index.js")
npmLink  == pathJoin(npmTarget, "semver")
hostDir  == "/usr/share/nodejs/semver"
goneDir  == "/usr/share/nodejs/gone"

FileModes == {292, 420}     \* 0o444, 0o644
DirModes  == {365, 493}     \* 0o555, 0o755

FileNode(m)    == [kind |-> "file", mode |-> m, target |-> ""]
DirNode(m)     == [kind |-> "dir", mode |-> m, target |-> ""]
LinkNode(t)    == [kind |-> "link", mode |-> 511, target |-> t]

\* the bundle directories of the model, with the file outside them
BundleTrees ==
    LET base == { (bundleDir :> DirNode(r)) @@ (manifestPath :> FileNode(m))
                  @@ (hostDir :> DirNode(493)) :
                  r \in DirModes, m \in FileModes }
        withNpm == { t @@ (npmTarget :> DirNode(d)) : t \in base, d \in DirModes }
        withJs  == { t @@ (npmIndex :> FileNode(m)) : t \in withNpm, m \in FileModes }
        linked  == { t @@ (npmLink :> LinkNode(x)) :
                     t \in withNpm \cup withJs, x \in {npmIndex, hostDir, goneDir} }
    IN  base \cup withNpm \cup withJs
        \cup { t \in linked : t[npmLink].target = npmIndex => npmIndex \in DOMAIN t }

\* fsp.readdir(dir): the names of the entries of dir, as paths
readdir(nodes, dir) ==
    SelectSeq(<< manifestPath, npmTarget, npmIndex, npmLink >>,
              LAMBDA q : /\ q \in DOMAIN nodes
                         /\ (IF q \in {npmIndex, npmLink} THEN npmTarget ELSE bundleDir) = dir)

\* fsp.lstat(p).mode, permission bits: for a link its own, 0o777, not those
\* of what it names
lstatMode(nodes, p) == nodes[p].mode

\* the path chmod(2) changes: it follows a symbolic link
chmodTarget(nodes, p) == IF nodes[p].kind = "link" THEN nodes[p].target ELSE p

\* chmod that changes the link itself
chmodNoFollow(nodes, p, m) == [nodes EXCEPT ![p].mode = m]

\* fsp.chmod(p, m)
chmod(nodes, p, m) == [nodes EXCEPT ![chmodTarget(nodes, p)].mode = m]

\* stat.mode | 0o200
withOwnerWrite(m) == IF (m \div OwnerWriteBit) % 2 = 1 THEN m ELSE m + OwnerWriteBit

w_Idle ==
    /\ w_pc = "off"
    /\ w_nodes = <<>>
    /\ w_before = <<>>
    /\ w_queue = <<>>
    /\ w_visits = <<>>

\* line 335
w_Init ==
    /\ w_pc = "walk"
    /\ w_nodes \in BundleTrees
    /\ w_before = w_nodes
    /\ w_queue = << bundleDir >>
    /\ w_visits = [q \in DOMAIN w_nodes |-> 0]

\* lines 337-339 where chmod finds nothing at the end of the link: ENOENT
WalkThrows ==
    /\ w_pc = "walk"
    /\ w_queue # <<>>
    /\ LET current == w_queue[Len(w_queue)]
       IN  /\ chmodTarget(w_nodes, current) \notin DOMAIN w_nodes
           /\ w_queue' = SubSeq(w_queue, 1, Len(w_queue) - 1)
           /\ w_visits' = [w_visits EXCEPT ![current] = @ + 1]
           /\ w_pc' = "threw"
    /\ UNCHANGED <<w_nodes, w_before>>
    /\ UNCHANGED <<prog, g_vars, b_vars, e_vars, v_vars, c_vars, p_vars,
                 r_vars, o_vars, u_vars, s_vars, m_vars>>

\* lines 337-342: a turn of the loop for what is no directory
WalkEntry ==
    /\ w_pc = "walk"
    /\ w_queue # <<>>
    /\ LET current == w_queue[Len(w_queue)]
       IN  /\ chmodTarget(w_nodes, current) \in DOMAIN w_nodes
           /\ w_nodes[current].kind # "dir"
           /\ w_nodes' = chmod(w_nodes, current,
                               withOwnerWrite(lstatMode(w_nodes, current)))
           /\ w_queue' = SubSeq(w_queue, 1, Len(w_queue) - 1)
           /\ w_visits' = [w_visits EXCEPT ![current] = @ + 1]
    /\ UNCHANGED <<w_pc, w_before>>
    /\ UNCHANGED <<prog, g_vars, b_vars, e_vars, v_vars, c_vars, p_vars,
                 r_vars, o_vars, u_vars, s_vars, m_vars>>

\* lines 337-346: a turn of the loop for a directory
WalkDir ==
    /\ w_pc = "walk"
    /\ w_queue # <<>>
    /\ LET current == w_queue[Len(w_queue)]
       IN  /\ w_nodes[current].kind = "dir"
           /\ w_nodes' = chmod(w_nodes, current,
                               withOwnerWrite(lstatMode(w_nodes, current)))
           /\ w_queue' = SubSeq(w_queue, 1, Len(w_queue) - 1)
                         \o readdir(w_nodes, current)
           /\ w_visits' = [w_visits EXCEPT ![current] = @ + 1]
    /\ UNCHANGED <<w_pc, w_before>>
    /\ UNCHANGED <<prog, g_vars, b_vars, e_vars, v_vars, c_vars, p_vars,
                 r_vars, o_vars, u_vars, s_vars, m_vars>>

\* line 336: the queue is empty
WalkReturns ==
    /\ w_pc = "walk"
    /\ w_queue = <<>>
    /\ w_pc' = "returned"
    /\ UNCHANGED <<w_nodes, w_before, w_queue, w_visits>>
    /\ UNCHANGED <<prog, g_vars, b_vars, e_vars, v_vars, c_vars, p_vars,
                 r_vars, o_vars, u_vars, s_vars, m_vars>>

w_Next == WalkThrows \/ WalkEntry \/ WalkDir \/ WalkReturns

(***************************************************************************)
(* Onboarding, OAuth mode: handleOAuthStart and what calls it, after the   *)
(* mount effect has loaded the providers (openai-codex and anthropic) and  *)
(* looked for local Codex auth.  Handlers run to their first await in one  *)
(* step; the view is rendered again between two events.                    *)
(***************************************************************************)
ProviderIds == {"openai-codex", "anthropic"}

\* the other branch always
reusesLocalNever(providerId, detected) == FALSE

\* line 263
reusesLocal(providerId, detected) == providerId = "openai-codex" /\ detected

o_Idle ==
    /\ o_busy = FALSE
    /\ o_detected = FALSE
    /\ o_selected = ""
    /\ o_calls = <<>>
    /\ o_shell = -1

o_Init ==
    /\ o_busy = FALSE
    /\ o_detected \in BOOLEAN
    /\ o_selected \in ProviderIds \cup {""}
    /\ o_detected => o_selected = "openai-codex"
    /\ o_calls = <<>>
    /\ o_shell = 0

\* lines 257-267 and 282-285: handleOAuthStart up to its await
handleOAuthStart(providerIdOverride) ==
    LET providerId == IF providerIdOverride # Null THEN providerIdOverride
                      ELSE o_selected
    IN  IF o_busy \/ providerId = ""
        THEN UNCHANGED <<o_busy, o_calls>>
        ELSE /\ o_busy' = TRUE
             /\ o_calls' = Append(o_calls,
                   [providerId |-> providerId,
                    detected   |-> o_detected,
                    bridge     |-> IF reusesLocal(providerId, o_detected)
                                   THEN "reuseLocalCodexAuth"
                                   ELSE "startOAuthLogin",
                    result     |-> "pending",
                    status     |-> "loading"])

\* line 454: the start button
ClickStart ==
    /\ o_shell >= 0
    /\ Len(o_calls) < MaxStarts
    /\ ~o_busy /\ o_selected # ""
    /\ handleOAuthStart(Null)
    /\ UNCHANGED <<o_detected, o_selected, o_shell>>
    /\ UNCHANGED <<prog, g_vars, b_vars, e_vars, v_vars, c_vars, p_vars, w_vars,
                 r_vars, u_vars, s_vars, m_vars>>

\* lines 300-304 and 446-447: the button that uses the local Codex auth
ClickUseLocalCodexAuth ==
    /\ o_shell >= 0
    /\ Len(o_calls) < MaxStarts
    /\ ~o_busy /\ o_detected
    /\ o_selected' = "openai-codex"
    /\ handleOAuthStart("openai-codex")
    /\ UNCHANGED <<o_detected, o_shell>>
    /\ UNCHANGED <<prog, g_vars, b_vars, e_vars, v_vars, c_vars, p_vars, w_vars,
                 r_vars, u_vars, s_vars, m_vars>>

\* lines 306-310 and 404-407: the button of a local tool
ClickUseLocalTool ==
    /\ o_shell >= 0
    /\ Len(o_calls) < MaxStarts
    /\ ~o_busy
    /\ \E providerId \in ProviderIds :
          /\ o_selected' = providerId
          /\ handleOAuthStart(providerId)
    /\ UNCHANGED <<o_detected, o_shell>>
    /\ UNCHANGED <<prog, g_vars, b_vars, e_vars, v_vars, c_vars, p_vars, w_vars,
                 r_vars, u_vars, s_vars, m_vars>>

\* lines 418-421: the provider select
SelectProvider ==
    /\ o_shell >= 0
    /\ ~o_busy
    /\ \E providerId \in ProviderIds :
          /\ providerId # o_selected
          /\ o_selected' = providerId
    /\ UNCHANGED <<o_busy, o_detected, o_calls, o_shell>>
    /\ UNCHANGED <<prog, g_vars, b_vars, e_vars, v_vars, c_vars, p_vars, w_vars,
                 r_vars, u_vars, s_vars, m_vars>>

\* lines 215-226, from the refresh button of lines 431-442: the detection ran
\* again
RefreshCodexAuth ==
    /\ o_shell >= 0
    /\ ~o_busy
    /\ \E detected \in BOOLEAN :
          /\ detected # o_detected
          /\ o_detected' = detected
          /\ o_selected' = IF detected THEN "openai-codex" ELSE o_selected
    /\ UNCHANGED <<o_busy, o_calls, o_shell>>
    /\ UNCHANGED <<prog, g_vars, b_vars, e_vars, v_vars, c_vars, p_vars, w_vars,
                 r_vars, u_vars, s_vars, m_vars>>

\* lines 267-279: reuseLocalCodexAuth settled
ReuseSettles ==
    /\ o_calls # <<>>
    /\ o_calls[Len(o_calls)].result = "pending"
    /\ o_calls[Len(o_calls)].bridge = "reuseLocalCodexAuth"
    /\ \E result \in {"reused", "not-reused", "threw"} :
          /\ o_calls' = [o_calls EXCEPT ![Len(o_calls)] =
                            [@ EXCEPT !.result = result,
                                      !.status = IF result = "reused"
                                                 THEN "oauth.codex.reused"
                                                 ELSE "error"]]
          /\ o_shell' = IF result = "reused" THEN o_shell + 1 ELSE o_shell
    /\ o_busy' = FALSE
    /\ UNCHANGED <<o_detected, o_selected>>
    /\ UNCHANGED <<prog, g_vars, b_vars, e_vars, v_vars, c_vars, p_vars, w_vars,
                 r_vars, u_vars, s_vars, m_vars>>

\* lines 285-297: startOAuthLogin settled
LoginSettles ==
    /\ o_calls # <<>>
    /\ o_calls[Len(o_calls)].result = "pending"
    /\ o_calls[Len(o_calls)].bridge = "startOAuthLogin"
    /\ \E result \in {"launched", "not-launched", "threw"} :
          /\ o_calls' = [o_calls EXCEPT ![Len(o_calls)] =
                            [@ EXCEPT !.result = result,
                                      !.status = IF result = "launched"
                                                 THEN "oauth.start"
                                                 ELSE "error"]]
          /\ o_shell' = IF result = "launched" THEN o_shell + 1 ELSE o_shell
    /\ o_busy' = FALSE
    /\ UNCHANGED <<o_detected, o_selected>>
    /\ UNCHANGED <<prog, g_vars, b_vars, e_vars, v_vars, c_vars, p_vars, w_vars,
                 r_vars, u_vars, s_vars, m_vars>>

o_Next ==
    \/ ClickStart \/ ClickUseLocalCodexAuth \/ ClickUseLocalTool
    \/ SelectProvider \/ RefreshCodexAuth \/ ReuseSettles \/ LoginSettles

(***************************************************************************)
(* UpdaterWidget in the Tauri runtime.  A check is the promise of          *)
(* check(): it is pending until Tauri settles it.  An update handle is     *)
(* named by the number of the check that returned it, 0 is no handle.      *)
(* The process ends when relaunch() succeeds.                              *)
(***************************************************************************)
Phases == {"idle", "checking", "available", "none", "downloading", "error"}

Relaunched == \E k \in 1..Len(u_installs) : u_installs[k].result = "relaunched"

\* line 55
phaseWhenNone(manual) == IF manual THEN "none" ELSE "idle"

\* a handler that goes on to relaunch whatever downloadAndInstall did
afterDownloadAlwaysInstalled(ok) == "installed"

\* lines 77-107: downloadAndInstall resolved, or threw into the catch
afterDownload(ok) == IF ok THEN "installed" ELSE "failed"

\* lines 69-71
mayInstall(updateRef) == updateRef # 0

u_Idle ==
    /\ u_phase = "idle"
    /\ u_updateRef = 0
    /\ u_timer = "none"
    /\ u_checks = <<>>
    /\ u_installs = <<>>
    /\ u_clicks = 0

\* lines 19-26 and 110-118: mounted, the startup timer armed
u_Init ==
    /\ u_phase = "idle"
    /\ u_updateRef = 0
    /\ u_timer = "armed"
    /\ u_checks = <<>>
    /\ u_installs = <<>>
    /\ u_clicks = 0

\* lines 34-46: checkForUpdates up to its await
checkForUpdates(manual) ==
    /\ u_phase' = "checking"
    /\ u_checks' = Append(u_checks,
          [manual |-> manual, result |-> "pending", during |-> u_phase])

\* line 126: the check button
ClickCheck ==
    /\ u_timer # "none" /\ ~Relaunched
    /\ u_clicks < MaxChecks
    /\ u_phase \notin {"checking", "downloading"}
    /\ checkForUpdates(TRUE)
    /\ u_clicks' = u_clicks + 1
    /\ UNCHANGED <<u_updateRef, u_timer, u_installs>>
    /\ UNCHANGED <<prog, g_vars, b_vars, e_vars, v_vars, c_vars, p_vars, w_vars,
                 r_vars, o_vars, s_vars, m_vars>>

\* lines 114-116: the startup timer fires
TimerFires ==
    /\ u_timer = "armed" /\ ~Relaunched
    /\ u_timer' = "fired"
    /\ checkForUpdates(FALSE)
    /\ UNCHANGED <<u_updateRef, u_installs, u_clicks>>
    /\ UNCHANGED <<prog, g_vars, b_vars, e_vars, v_vars, c_vars, p_vars, w_vars,
                 r_vars, o_vars, s_vars, m_vars>>

\* lines 46-65: a check settles
CheckSettles ==
    /\ ~Relaunched
    /\ \E k \in 1..Len(u_checks), result \in {"update", "no-update", "threw"} :
          /\ u_checks[k].result = "pending"
          /\ u_checks' = [u_checks EXCEPT ![k].result = result]
          /\ u_updateRef' = CASE result = "update"    -> k
                              [] result = "no-update" -> 0
                              [] OTHER                -> u_updateRef
          /\ u_phase' = CASE result = "update"    -> "available"
                          [] result = "no-update" -> phaseWhenNone(u_checks[k].manual)
                          [] OTHER                -> "error"
    /\ UNCHANGED <<u_timer, u_installs, u_clicks>>
    /\ UNCHANGED <<prog, g_vars, b_vars, e_vars, v_vars, c_vars, p_vars, w_vars,
                 r_vars, o_vars, s_vars, m_vars>>

\* lines 68-78 and 130-136: the install button, installUpdate up to its await
ClickInstall ==
    /\ u_timer # "none" /\ ~Relaunched
    /\ u_phase = "available"
    /\ IF mayInstall(u_updateRef)
       THEN /\ u_phase' = "downloading"
            /\ u_installs' = Append(u_installs,
                  [handle |-> u_updateRef, result |-> "pending",
                   downloaded |-> FALSE, relaunch |-> FALSE,
                   phase |-> "downloading"])
       ELSE UNCHANGED <<u_phase, u_installs>>
    /\ UNCHANGED <<u_updateRef, u_timer, u_checks, u_clicks>>
    /\ UNCHANGED <<prog, g_vars, b_vars, e_vars, v_vars, c_vars, p_vars, w_vars,
                 r_vars, o_vars, s_vars, m_vars>>

\* lines 78-101 and 102-107: downloadAndInstall settles
DownloadSettles ==
    /\ ~Relaunched
    /\ \E k \in 1..Len(u_installs), ok \in BOOLEAN :
          /\ u_installs[k].result = "pending"
          /\ IF afterDownload(ok) = "installed"
             THEN /\ u_installs' = [u_installs EXCEPT ![k] =
                        [@ EXCEPT !.result = "installed", !.downloaded = ok,
                                  !.relaunch = TRUE, !.phase = u_phase]]
                  /\ UNCHANGED u_phase
             ELSE /\ u_installs' = [u_installs EXCEPT ![k] =
                        [@ EXCEPT !.result = "failed", !.downloaded = ok,
                                  !.phase = "error"]]
                  /\ u_phase' = "error"
    /\ UNCHANGED <<u_updateRef, u_timer, u_checks, u_clicks>>
    /\ UNCHANGED <<prog, g_vars, b_vars, e_vars, v_vars, c_vars, p_vars, w_vars,
                 r_vars, o_vars, s_vars, m_vars>>

\* lines 101-107: relaunch() settles
RelaunchSettles ==
    /\ ~Relaunched
    /\ \E k \in 1..Len(u_installs), ok \in BOOLEAN :
          /\ u_installs[k].result = "installed"
          /\ IF ok
             THEN /\ u_installs' = [u_installs EXCEPT ![k].result = "relaunched"]
                  /\ UNCHANGED u_phase
             ELSE /\ u_installs' = [u_installs EXCEPT ![k] =
                        [@ EXCEPT !.result = "relaunch-threw", !.phase = "error"]]
                  /\ u_phase' = "error"
    /\ UNCHANGED <<u_updateRef, u_timer, u_checks, u_clicks>>
    /\ UNCHANGED <<prog, g_vars, b_vars, e_vars, v_vars, c_vars, p_vars, w_vars,
                 r_vars, o_vars, s_vars, m_vars>>

u_Next ==
    \/ ClickCheck \/ TimerFires \/ CheckSettles
    \/ ClickInstall \/ DownloadSettles \/ RelaunchSettles

(***************************************************************************)
(* Shell: the readiness of the official page.  Init is the state after the *)
(* mount effect: the help tab, and the first readiness call in flight.     *)
(***************************************************************************)
Tabs == {"help", "official", "settings"}

InFlight == {k \in 1..Len(s_calls) : s_calls[k].result = "pending"}

\* line 61: the finally of every call, whatever else is in flight
loadingAfterSettle(others) == FALSE

s_Idle ==
    /\ s_loading = FALSE
    /\ s_ready = FALSE
    /\ s_opening = FALSE
    /\ s_tab = "none"
    /\ s_calls = <<>>
    /\ s_opens = <<>>

\* lines 17-22 and 203-208
s_Init ==
    /\ s_loading = TRUE
    /\ s_ready = FALSE
    /\ s_opening = FALSE
    /\ s_tab = "help"
    /\ s_calls = <<[from |-> "mount", result |-> "pending"]>>
    /\ s_opens = <<>>

\* lines 36-42: ensureOfficialWebReady up to its await
ensureOfficialWebReady(from) ==
    /\ s_loading' = TRUE
    /\ s_calls' = Append(s_calls, [from |-> from, result |-> "pending"])

\* lines 65-70: openOfficialWebWindow up to its await
openOfficialWebWindow(from) ==
    /\ s_opening' = TRUE
    /\ s_opens' = Append(s_opens, [from |-> from, result |-> "pending"])

\* lines 180-183, 198-201, 216 and 230: the help and settings tabs
SwitchTab ==
    /\ s_tab # "none"
    /\ \E tab \in {"help", "settings"} :
          /\ tab # s_tab
          /\ s_tab' = tab
    /\ UNCHANGED <<s_loading, s_ready, s_opening, s_calls, s_opens>>
    /\ UNCHANGED <<prog, g_vars, b_vars, e_vars, v_vars, c_vars, p_vars, w_vars,
                 r_vars, o_vars, u_vars, m_vars>>

\* lines 185-186 and 220-226: the official tab, switchToOfficialTab up to
\* its first await
ClickOfficialTab ==
    /\ s_tab # "none"
    /\ IF s_ready
       THEN /\ Len(s_opens) < MaxCalls
            /\ openOfficialWebWindow("tab")
            /\ UNCHANGED <<s_loading, s_calls>>
       ELSE /\ Len(s_calls) < MaxCalls
            /\ ensureOfficialWebReady("tab")
            /\ UNCHANGED <<s_opening, s_opens>>
    /\ UNCHANGED <<s_ready, s_tab>>
    /\ UNCHANGED <<prog, g_vars, b_vars, e_vars, v_vars, c_vars, p_vars, w_vars,
                 r_vars, o_vars, u_vars, m_vars>>

\* line 352: the retry button of the official panel
ClickRetry ==
    /\ s_tab = "official"
    /\ ~s_loading /\ ~s_opening
    /\ Len(s_calls) < MaxCalls
    /\ ensureOfficialWebReady("retry")
    /\ UNCHANGED <<s_ready, s_opening, s_tab, s_opens>>
    /\ UNCHANGED <<prog, g_vars, b_vars, e_vars, v_vars, c_vars, p_vars, w_vars,
                 r_vars, o_vars, u_vars, m_vars>>

\* lines 344-350: the open button of the official panel
ClickOpen ==
    /\ s_tab = "official"
    /\ ~s_loading /\ ~s_opening
    /\ Len(s_opens) < MaxCalls
    /\ openOfficialWebWindow("button")
    /\ UNCHANGED <<s_loading, s_ready, s_tab, s_calls>>
    /\ UNCHANGED <<prog, g_vars, b_vars, e_vars, v_vars, c_vars, p_vars, w_vars,
                 r_vars, o_vars, u_vars, m_vars>>

\* lines 42-62, and 186-193 when the call came from the tab: a readiness
\* call settles
ReadySettles ==
    /\ \E k \in InFlight, result \in {"ready", "not-ready", "threw"} :
          /\ s_ready' = (result = "ready")
          /\ s_loading' = loadingAfterSettle(InFlight \ {k})
          /\ s_calls' = [s_calls EXCEPT ![k].result = result]
          /\ IF s_calls[k].from = "tab"
             THEN IF result = "ready"
                  THEN openOfficialWebWindow("tab") /\ UNCHANGED s_tab
                  ELSE s_tab' = "official" /\ UNCHANGED <<s_opening, s_opens>>
             ELSE UNCHANGED <<s_opening, s_tab, s_opens>>
    /\ UNCHANGED <<prog, g_vars, b_vars, e_vars, v_vars, c_vars, p_vars, w_vars,
                 r_vars, o_vars, u_vars, m_vars>>

\* lines 70-82, and 192-195 when the call came from the tab: a window
\* opening settles
OpenSettles ==
    /\ \E k \in 1..Len(s_opens), opened \in BOOLEAN :
          /\ s_opens[k].result = "pending"
          /\ s_opens' = [s_opens EXCEPT ![k].result =
                            IF opened THEN "opened" ELSE "threw"]
          /\ s_opening' = FALSE
          /\ s_tab' = IF s_opens[k].from = "tab" /\ ~opened THEN "official"
                      ELSE s_tab
    /\ UNCHANGED <<s_loading, s_ready, s_calls>>
    /\ UNCHANGED <<prog, g_vars, b_vars, e_vars, v_vars, c_vars, p_vars, w_vars,
                 r_vars, o_vars, u_vars, m_vars>>

s_Next ==
    \/ SwitchTab \/ ClickOfficialTab \/ ClickRetry \/ ClickOpen
    \/ ReadySettles \/ OpenSettles

(***************************************************************************)
(* Bootstrap in the Tauri runtime: the mount effect, its cleanup, the      *)
(* listener of bootstrap-log and runBootstrap.  Init is the state after    *)
(* the mount effect: listen() called and its promise pending, the first    *)
(* run started.  A line is named by its number within its run.  The        *)
(* backend is outside the sources: it is taken to emit lines while a run   *)
(* is awaited, and to return every line of the run in result.logs.         *)
(***************************************************************************)
LogCap == 500

\* line 62 alone
appendUncapped(prev, payload) == Append(prev, payload)

\* lines 61-64
appendCapped(prev, payload) ==
    LET next == Append(prev, payload)
    IN  IF Len(next) > LogCap
        THEN SubSeq(next, Len(next) - LogCap + 1, Len(next))
        ELSE next

\* a then-callback that keeps the function whatever cancelled says
keepsAlways(cancelled) == FALSE

\* line 66
callsAtOnce(cancelled) == cancelled

m_Idle ==
    /\ m_mounted = FALSE
    /\ m_cancelled = FALSE
    /\ m_unlisten = FALSE
    /\ m_listen = "none"
    /\ m_registered = 0
    /\ m_unlistenCalls = 0
    /\ m_running = FALSE
    /\ m_liveLogs = <<>>
    /\ m_emitted = 0
    /\ m_runs = 0

\* lines 14-17 and 51-73
m_Init ==
    /\ m_mounted = TRUE
    /\ m_cancelled = FALSE
    /\ m_unlisten = FALSE
    /\ m_listen = "pending"
    /\ m_registered = 1
    /\ m_unlistenCalls = 0
    /\ m_running = TRUE
    /\ m_liveLogs = <<>>
    /\ m_emitted = 0
    /\ m_runs = 1

\* lines 65-71: the promise of listen() settles
ListenSettles ==
    /\ m_listen = "pending"
    /\ \E ok \in BOOLEAN :
          IF ok
          THEN /\ m_listen' = "resolved"
               /\ IF callsAtOnce(m_cancelled)
                  THEN /\ m_unlistenCalls' = m_unlistenCalls + 1
                       /\ m_registered' = 0
                       /\ UNCHANGED m_unlisten
                  ELSE /\ m_unlisten' = TRUE
                       /\ UNCHANGED <<m_unlistenCalls, m_registered>>
          ELSE /\ m_listen' = "rejected"
               /\ m_registered' = 0
               /\ UNCHANGED <<m_unlisten, m_unlistenCalls>>
    /\ UNCHANGED <<m_mounted, m_cancelled, m_running, m_liveLogs, m_emitted, m_runs>>
    /\ UNCHANGED <<prog, g_vars, b_vars, e_vars, v_vars, c_vars, p_vars, w_vars,
                 r_vars, o_vars, u_vars, s_vars>>

\* lines 76-81: the cleanup of the effect
Unmount ==
    /\ m_mounted
    /\ m_mounted' = FALSE
    /\ m_cancelled' = TRUE
    /\ IF m_unlisten
       THEN /\ m_unlistenCalls' = m_unlistenCalls + 1
            /\ m_registered' = 0
       ELSE UNCHANGED <<m_unlistenCalls, m_registered>>
    /\ UNCHANGED <<m_unlisten, m_listen, m_running, m_liveLogs, m_emitted, m_runs>>
    /\ UNCHANGED <<prog, g_vars, b_vars, e_vars, v_vars, c_vars, p_vars, w_vars,
                 r_vars, o_vars, u_vars, s_vars>>

\* lines 60-65: the listener receives a line
LogEvent ==
    /\ m_mounted /\ m_registered > 0 /\ m_running
    /\ m_emitted < MaxLogLines
    /\ m_emitted' = m_emitted + 1
    /\ m_liveLogs' = appendCapped(m_liveLogs, m_emitted + 1)
    /\ UNCHANGED <<m_mounted, m_cancelled, m_unlisten, m_listen, m_registered,
                   m_unlistenCalls, m_running, m_runs>>
    /\ UNCHANGED <<prog, g_vars, b_vars, e_vars, v_vars, c_vars, p_vars, w_vars,
                 r_vars, o_vars, u_vars, s_vars>>

\* lines 30-48: bootstrapOpenClaw settles
RunEnds ==
    /\ m_mounted /\ m_running
    /\ m_running' = FALSE
    /\ \E threw \in BOOLEAN :
          m_liveLogs' = IF threw THEN m_liveLogs
                        ELSE [k \in 1..m_emitted |-> k]
    /\ UNCHANGED <<m_mounted, m_cancelled, m_unlisten, m_listen, m_registered,
                   m_unlistenCalls, m_emitted, m_runs>>
    /\ UNCHANGED <<prog, g_vars, b_vars, e_vars, v_vars, c_vars, p_vars, w_vars,
                 r_vars, o_vars, u_vars, s_vars>>

\* lines 21-30 and 127: the retry button, runBootstrap up to its await
StartRun ==
    /\ m_mounted /\ ~m_running
    /\ m_runs < MaxRuns
    /\ m_running' = TRUE
    /\ m_liveLogs' = <<>>
    /\ m_emitted' = 0
    /\ m_runs' = m_runs + 1
    /\ UNCHANGED <<m_mounted, m_cancelled, m_unlisten, m_listen, m_registered,
                   m_unlistenCalls>>
    /\ UNCHANGED <<prog, g_vars, b_vars, e_vars, v_vars, c_vars, p_vars, w_vars,
                 r_vars, o_vars, u_vars, s_vars>>

m_Next == ListenSettles \/ Unmount \/ LogEvent \/ RunEnds \/ StartRun

(***************************************************************************)
(* Two runs of the bundle builder at the same time, on one checkout that   *)
(* has no local build of openclaw and no OPENCLAW_BUNDLE_NODE: both use    *)
(* resources/openclaw-bundle and .tmp/openclaw-bundle, and main takes no   *)
(* lock.  A run steps from one statement of main to the next; the other    *)
(* run may step in between.  The registry and the host's npm always        *)
(* answer, so a stage fails only when a file or directory it needs is      *)
(* gone.  r_wrote[i] is what run i has placed in the bundle directory.     *)
(***************************************************************************)
Runs == {1, 2}

remotePacked == pathJoin(tempDir, "openclaw.tgz")

\* a stage that never finds anything missing
missingNever(paths, needed) == FALSE

\* ENOENT from copyFile, cp, writeFile and lstat, a non-zero exit from npm
missing(paths, needed) == \E q \in needed : q \notin paths

r_Idle ==
    /\ r_fs = {}
    /\ r_pc = [i \in Runs |-> "off"]
    /\ r_exit = [i \in Runs |-> -1]
    /\ r_wrote = [i \in Runs |-> {}]

\* both runs are at the first statement of main
r_Init ==
    /\ r_fs = {}
    /\ r_pc = [i \in Runs |-> "cleanBundle"]
    /\ r_exit = [i \in Runs |-> -1]
    /\ r_wrote = [i \in Runs |-> {}]

\* the stage of run i needs `needed`, leaves `paths` and has placed `placed`
r_Stage(i, needed, paths, placed, to) ==
    IF missing(r_fs, needed)
    THEN /\ r_pc' = [r_pc EXCEPT ![i] = "exited"]
         /\ r_exit' = [r_exit EXCEPT ![i] = 1]
         /\ UNCHANGED <<r_fs, r_wrote>>
    ELSE /\ r_fs' = paths
         /\ r_pc' = [r_pc EXCEPT ![i] = to]
         /\ r_wrote' = [r_wrote EXCEPT ![i] = @ \cup placed]
         /\ UNCHANGED r_exit

\* line 489
r_CleanBundle(i) ==
    /\ r_pc[i] = "cleanBundle"
    /\ r_Stage(i, {}, ensureCleanDir(r_fs, bundleDir), {}, "cleanTemp")
    /\ UNCHANGED <<prog, g_vars, b_vars, e_vars, v_vars, c_vars, p_vars, w_vars,
                 o_vars, u_vars, s_vars, m_vars>>

\* line 490
r_CleanTemp(i) ==
    /\ r_pc[i] = "cleanTemp"
    /\ r_Stage(i, {}, ensureCleanDir(r_fs, tempDir), {}, "pack")
    /\ UNCHANGED <<prog, g_vars, b_vars, e_vars, v_vars, c_vars, p_vars, w_vars,
                 o_vars, u_vars, s_vars, m_vars>>

\* line 492 with lines 428-430: npm pack in the scratch directory
r_Pack(i) ==
    /\ r_pc[i] = "pack"
    /\ r_Stage(i, {tempDir}, r_fs \cup {remotePacked}, {}, "runtime")
    /\ UNCHANGED <<prog, g_vars, b_vars, e_vars, v_vars, c_vars, p_vars, w_vars,
                 o_vars, u_vars, s_vars, m_vars>>

\* line 494 with lines 451-468: the portable node is installed
r_Runtime(i) ==
    /\ r_pc[i] = "runtime"
    /\ r_Stage(i, {},
               ensureCleanDir(r_fs, nodeProvisionPrefix)
                   \cup {tempDir, bundledNodePath},
               {}, "copyTgz")
    /\ UNCHANGED <<prog, g_vars, b_vars, e_vars, v_vars, c_vars, p_vars, w_vars,
                 o_vars, u_vars, s_vars, m_vars>>

\* lines 495-497
r_CopyTgz(i) ==
    /\ r_pc[i] = "copyTgz"
    /\ r_Stage(i, {remotePacked, bundleDir}, r_fs \cup {bundledTgz},
               {bundledTgz}, "cleanNode")
    /\ UNCHANGED <<prog, g_vars, b_vars, e_vars, v_vars, c_vars, p_vars, w_vars,
                 o_vars, u_vars, s_vars, m_vars>>

\* lines 500-501
r_CleanNode(i) ==
    /\ r_pc[i] = "cleanNode"
    /\ r_Stage(i, {}, ensureCleanDir(r_fs, nodeDir) \cup {bundleDir}, {}, "copyNode")
    /\ UNCHANGED <<prog, g_vars, b_vars, e_vars, v_vars, c_vars, p_vars, w_vars,
                 o_vars, u_vars, s_vars, m_vars>>

\* lines 502-507
r_CopyNode(i) ==
    /\ r_pc[i] = "copyNode"
    /\ r_Stage(i, {bundledNodePath, nodeDir}, r_fs \cup {nodeTarget},
               {nodeTarget}, "copyNpm")
    /\ UNCHANGED <<prog, g_vars, b_vars, e_vars, v_vars, c_vars, p_vars, w_vars,
                 o_vars, u_vars, s_vars, m_vars>>

\* lines 509-516
r_CopyNpm(i) ==
    /\ r_pc[i] = "copyNpm"
    /\ r_Stage(i, {}, rmrf(r_fs, npmTarget) \cup {bundleDir, npmTarget},
               {npmTarget}, "warm")
    /\ UNCHANGED <<prog, g_vars, b_vars, e_vars, v_vars, c_vars, p_vars, w_vars,
                 o_vars, u_vars, s_vars, m_vars>>

\* lines 518-532
r_WarmCache(i) ==
    /\ r_pc[i] = "warm"
    /\ r_Stage(i, {bundledTgz},
               r_fs \cup {bundleDir, cacheDir, tempDir, installPrefix},
               {cacheDir}, "snapshot")
    /\ UNCHANGED <<prog, g_vars, b_vars, e_vars, v_vars, c_vars, p_vars, w_vars,
                 o_vars, u_vars, s_vars, m_vars>>

\* lines 534-538
r_SnapshotPrefix(i) ==
    /\ r_pc[i] = "snapshot"
    /\ r_Stage(i, {installPrefix},
               rmrf(r_fs, bundledPrefix) \cup {bundleDir, bundledPrefix},
               {bundledPrefix}, "verify")
    /\ UNCHANGED <<prog, g_vars, b_vars, e_vars, v_vars, c_vars, p_vars, w_vars,
                 o_vars, u_vars, s_vars, m_vars>>

\* lines 540-557: the copy is made, runs and is removed
r_Verify(i) ==
    /\ r_pc[i] = "verify"
    /\ r_Stage(i, {bundledPrefix},
               rmrf(r_fs \cup {tempDir}, verifyPrefix), {}, "manifest")
    /\ UNCHANGED <<prog, g_vars, b_vars, e_vars, v_vars, c_vars, p_vars, w_vars,
                 o_vars, u_vars, s_vars, m_vars>>

\* lines 558-580
r_WriteManifest(i) ==
    /\ r_pc[i] = "manifest"
    /\ r_Stage(i, {bundleDir}, rmrf(r_fs, installPrefix) \cup {manifestPath},
               {manifestPath}, "writable")
    /\ UNCHANGED <<prog, g_vars, b_vars, e_vars, v_vars, c_vars, p_vars, w_vars,
                 o_vars, u_vars, s_vars, m_vars>>

\* lines 582-584
r_MakeWritable(i) ==
    /\ r_pc[i] = "writable"
    /\ r_Stage(i, {bundleDir}, r_fs, {}, "rmtemp")
    /\ UNCHANGED <<prog, g_vars, b_vars, e_vars, v_vars, c_vars, p_vars, w_vars,
                 o_vars, u_vars, s_vars, m_vars>>

\* lines 586-588: main returns and the process ends with code 0
r_RemoveTemp(i) ==
    /\ r_pc[i] = "rmtemp"
    /\ r_fs' = rmrf(r_fs, tempDir)
    /\ r_pc' = [r_pc EXCEPT ![i] = "exited"]
    /\ r_exit' = [r_exit EXCEPT ![i] = 0]
    /\ UNCHANGED r_wrote
    /\ UNCHANGED <<prog, g_vars, b_vars, e_vars, v_vars, c_vars, p_vars, w_vars,
                 o_vars, u_vars, s_vars, m_vars>>

r_Next ==
    \E i \in Runs :
        \/ r_CleanBundle(i) \/ r_CleanTemp(i) \/ r_Pack(i) \/ r_Runtime(i)
        \/ r_CopyTgz(i) \/ r_CleanNode(i) \/ r_CopyNode(i) \/ r_CopyNpm(i)
        \/ r_WarmCache(i) \/ r_SnapshotPrefix(i) \/ r_Verify(i)
        \/ r_WriteManifest(i) \/ r_MakeWritable(i) \/ r_RemoveTemp(i)

(***************************************************************************)
(* The specifications: one per program, and their union.                   *)
(***************************************************************************)
ToolsIdle == g_Idle /\ b_Idle /\ e_Idle /\ v_Idle /\ c_Idle /\ p_Idle /\ w_Idle
ViewsIdle == o_Idle /\ u_Idle /\ s_Idle /\ m_Idle

vars == <<prog, g_vars, b_vars, e_vars, v_vars, c_vars, p_vars, w_vars,
          r_vars, o_vars, u_vars, s_vars, m_vars>>

InitManifest == /\ prog = "manifest"
                /\ g_Init /\ b_Idle /\ e_Idle /\ v_Idle /\ c_Idle /\ p_Idle /\ w_Idle
                /\ r_Idle /\ ViewsIdle
InitUsage    == /\ prog = "manifest"
                /\ g_InitArgs /\ b_Idle /\ e_Idle /\ v_Idle /\ c_Idle /\ p_Idle /\ w_Idle
                /\ r_Idle /\ ViewsIdle
InitBundle   == /\ prog = "bundle"
                /\ g_Idle /\ b_Init /\ e_Idle /\ v_Idle /\ c_Idle /\ p_Idle /\ w_Idle
                /\ r_Idle /\ ViewsIdle
InitE2E      == /\ prog = "e2e"
                /\ g_Idle /\ b_Idle /\ e_Init /\ v_Idle /\ c_Idle /\ p_Idle /\ w_Idle
                /\ r_Idle /\ ViewsIdle
InitVersion  == /\ prog = "version"
                /\ g_Idle /\ b_Idle /\ e_Idle /\ v_Init /\ c_Idle /\ p_Idle /\ w_Idle
                /\ r_Idle /\ ViewsIdle
InitClassify == /\ prog = "classify"
                /\ g_Idle /\ b_Idle /\ e_Idle /\ v_Idle /\ c_Init /\ p_Idle /\ w_Idle
                /\ r_Idle /\ ViewsIdle
InitProbe    == /\ prog = "probe"
                /\ g_Idle /\ b_Idle /\ e_Idle /\ v_Idle /\ c_Idle /\ p_Init /\ w_Idle
                /\ r_Idle /\ ViewsIdle
InitWritable == /\ prog = "writable"
                /\ g_Idle /\ b_Idle /\ e_Idle /\ v_Idle /\ c_Idle /\ p_Idle /\ w_Init
                /\ r_Idle /\ ViewsIdle

InitRace       == /\ prog = "race"
                  /\ ToolsIdle /\ r_Init /\ ViewsIdle
InitOnboarding == /\ prog = "onboarding"
                  /\ ToolsIdle /\ r_Idle /\ o_Init /\ u_Idle /\ s_Idle /\ m_Idle
InitUpdater    == /\ prog = "updater"
                  /\ ToolsIdle /\ r_Idle /\ o_Idle /\ u_Init /\ s_Idle /\ m_Idle
InitShell      == /\ prog = "shell"
                  /\ ToolsIdle /\ r_Idle /\ o_Idle /\ u_Idle /\ s_Init /\ m_Idle
InitBootstrap  == /\ prog = "bootstrap"
                  /\ ToolsIdle /\ r_Idle /\ o_Idle /\ u_Idle /\ s_Idle /\ m_Init

Init == \/ InitManifest \/ InitUsage \/ InitBundle \/ InitE2E \/ InitVersion
        \/ InitClassify \/ InitProbe \/ InitWritable
        \/ InitRace \/ InitOnboarding \/ InitUpdater \/ InitShell \/ InitBootstrap
Next == \/ g_Next \/ UsageAndExit \/ AcceptArgs \/ Rerun
        \/ b_Next \/ e_Next \/ v_Next \/ c_Next \/ p_Next \/ w_Next
        \/ r_Next \/ o_Next \/ u_Next \/ s_Next \/ m_Next
Spec == Init /\ [][Next]_vars

SpecRace       == InitRace /\ [][r_Next]_vars
SpecOnboarding == InitOnboarding /\ [][o_Next]_vars
SpecUpdater    == InitUpdater /\ [][u_Next]_vars
SpecShell      == InitShell /\ [][s_Next]_vars
SpecBootstrap  == InitBootstrap /\ [][m_Next]_vars
SpecProbe    == InitProbe /\ [][p_Next]_vars
SpecWritable == InitWritable /\ [][w_Next]_vars
\* the generator from its first line
SpecUsage    == InitUsage /\ [][UsageAndExit \/ AcceptArgs \/ g_Next]_vars
\* the generator run once, or twice in a row
SpecRerun    == InitManifest /\ [][g_Next \/ Rerun]_vars
SpecVersion  == InitVersion /\ [][v_Next]_vars
SpecClassify == InitClassify /\ [][c_Next]_vars
SpecManifest == InitManifest /\ [][g_Next]_vars
SpecBundle   == InitBundle /\ [][b_Next]_vars

\* The validator's steps are taken one after the other without waiting on
\* anything but the commands they run, and a service process that was sent
\* SIGTERM ends.
SpecE2E ==
    /\ InitE2E
    /\ [][e_Next]_vars
    /\ WF_vars(e_Main)
    /\ WF_vars(killed /\ GatewayExits)

(***************************************************************************)
(* What the assets directory holds, read off the tree and not off the      *)
(* generator's variables.                                                  *)
(***************************************************************************)
Sidecars == {i \in 1..Len(tree) : IsSig(tree[i].path)}

\* the artifact name of sidecar i: its path without assetsDir/ and .sig
NameOf(i) == SubSeq(tree[i].path, Len(assetsDir) + 2, Len(tree[i].path) - 4)

HasText(text) == \E k \in 1..Len(text) : ~IsWhitespace(CharAt(text, k))

\* sidecar i has its artifact beside it and holds a signature
Signed(i) ==
    /\ \E k \in 1..Len(tree) : tree[k].path = pathJoin(assetsDir, NameOf(i))
    /\ HasText(tree[i].text)

Serves(i, target) ==
    \E k \in 1..Len(classify[NameOf(i)].targets) : classify[NameOf(i)].targets[k] = target

ScoreOf(i) == classify[NameOf(i)].baseScore

\* sidecar i has been scanned: fewer than sigIdx sidecars come up to it
Scanned(i) == Cardinality({j \in Sidecars : j <= i}) < sigIdx

ValidFor(target) == {i \in Sidecars : Signed(i) /\ Serves(i, target)}

AllTargets == UNION { Range(classify[n].targets) : n \in Catalog }

\* sig is text without the white space around it
IsTrimOf(sig, text) ==
    /\ sig # ""
    /\ ~IsWhitespace(CharAt(sig, 1))
    /\ ~IsWhitespace(CharAt(sig, Len(sig)))
    /\ \E a \in 1..(Len(text) - Len(sig) + 1) :
          /\ SubSeq(text, a, a + Len(sig) - 1) = sig
          /\ \A k \in 1..(a - 1) : IsWhitespace(CharAt(text, k))
          /\ \A k \in (a + Len(sig))..Len(text) : IsWhitespace(CharAt(text, k))

ScanDone == g_pc # "off" /\ sigIdx > Len(sigFiles)

(***************************************************************************)
(* C1: at every point of the scan the selection map holds at most one      *)
(* candidate per platform target, and the platforms map of the manifest    *)
(* written has no key twice.                                               *)
(***************************************************************************)
C1_OneEntryPerTarget ==
    /\ \A i, j \in 1..Len(bestByTarget) :
          i # j => bestByTarget[i][1] # bestByTarget[j][1]
    /\ latestJson.kind = "manifest" =>
          \A i, j \in 1..Len(latestJson.platforms) :
             i # j => latestJson.platforms[i][1] # latestJson.platforms[j][1]

\* a manifest was written from a directory with two signed candidates for
\* one target
C1_Witness ==
    /\ g_exit = 0
    /\ latestJson.kind = "manifest"
    /\ \E t \in AllTargets :
          /\ Cardinality(ValidFor(t)) >= 2
          /\ t \in MapKeys(latestJson.platforms)

(***************************************************************************)
(* C2: for every target, the candidate kept is the signed candidate of     *)
(* that target scanned so far with the highest score, and of several with  *)
(* that score the one the walk met first; a target with no signed          *)
(* candidate has no entry.  The input orders are all orders of the walk.   *)
(***************************************************************************)
C2_HighestFirstSeenKept ==
    \A t \in AllTargets :
        LET seen == {i \in ValidFor(t) : Scanned(i)}
        IN  IF seen = {}
            THEN ~MapHas(bestByTarget, t)
            ELSE /\ MapHas(bestByTarget, t)
                 /\ \E w \in seen :
                       /\ \A j \in seen :
                             \/ ScoreOf(w) > ScoreOf(j)
                             \/ ScoreOf(w) = ScoreOf(j) /\ w <= j
                       /\ MapGet(bestByTarget, t).artifactPath
                             = pathJoin(assetsDir, NameOf(w))
                       /\ MapGet(bestByTarget, t).score = ScoreOf(w)

\* the scan is over and met two signed candidates of equal score for one
\* target
C2_Witness ==
    /\ ScanDone
    /\ \E t \in AllTargets : \E i, j \in ValidFor(t) :
          /\ i < j
          /\ ScoreOf(i) = ScoreOf(j)
          /\ MapGet(bestByTarget, t).artifactPath = pathJoin(assetsDir, NameOf(i))

(***************************************************************************)
(* C3: every candidate kept, and every entry of the platforms map written, *)
(* comes from a sidecar whose artifact exists, whose text is not only      *)
(* white space and whose artifact name has the entry's target; its         *)
(* signature is that text trimmed, and its URL names that artifact.        *)
(***************************************************************************)
C3_EntriesFromSignedArtifacts ==
    /\ \A e \in 1..Len(bestByTarget) :
          \E i \in Sidecars :
             /\ Signed(i)
             /\ Serves(i, bestByTarget[e][1])
             /\ bestByTarget[e][2].fileName = NameOf(i)
             /\ IsTrimOf(bestByTarget[e][2].signature, tree[i].text)
    /\ latestJson.kind = "manifest" =>
          \A e \in 1..Len(latestJson.platforms) :
             \E i \in Sidecars :
                /\ Signed(i)
                /\ Serves(i, latestJson.platforms[e][1])
                /\ IsTrimOf(latestJson.platforms[e][2].signature, tree[i].text)
                /\ latestJson.platforms[e][2].url = assetUrl(NameOf(i))

\* a manifest was written from a directory that also holds a sidecar, of a
\* classified name, without artifact or without signature
C3_Witness ==
    /\ g_exit = 0
    /\ latestJson.kind = "manifest"
    /\ \E i \in Sidecars : ~Signed(i) /\ Len(classify[NameOf(i)].targets) > 0

(***************************************************************************)
(* C4: when no sidecar is a signed candidate of any target, the generator  *)
(* ends with a non-zero exit code, has written no manifest, and            *)
(* latest.json is as it was: still absent, or still the earlier file.      *)
(***************************************************************************)
NothingSigned == \A t \in AllTargets : ValidFor(t) = {}

C4_NothingSignedNothingWritten ==
    (g_pc = "exited" /\ NothingSigned) =>
        /\ g_exit # 0
        /\ latestJson \in {Absent, Stale}
        /\ latestJson = Stale <=> existsFile(tree, latestPath)

\* the generator ended on a directory with sidecars, none of them a signed
\* candidate, and an earlier latest.json
C4_Witness ==
    /\ g_pc = "exited"
    /\ NothingSigned
    /\ Len(sigFiles) > 0
    /\ latestJson = Stale

(***************************************************************************)
(* The builds of the bundle builder.                                       *)
(***************************************************************************)
\* a build that was not skipped has passed its first step
Building ==
    /\ b_pc \notin {"off", "idle", "clean"}
    /\ env.OPENCLAW_DESKTOP_SKIP_BUNDLE_PREP # "1"

BuildEnded == Building /\ b_pc = "exited"

(***************************************************************************)
(* C5: in a build, manifest.json exists, and the build ends with exit      *)
(* code 0, only if the version subcommand ran in the verification copy and *)
(* exited with 0, or the skip-verify switch is set; when the executable is *)
(* not found in the copy or the subcommand exits non-zero, the build ends  *)
(* with exit code 1 and there is no manifest.json.                         *)
(***************************************************************************)
VerifiedOrWaived ==
    \/ env.OPENCLAW_BUNDLE_SKIP_VERIFY = "1"
    \/ /\ verify = "ok"
       /\ \E k \in 1..Len(cmds) :
             /\ cmds[k].cmd = pathJoin(verifyPrefix, "bin/openclaw") \o " --version"
             /\ cmds[k].status = 0

C5_ManifestOnlyAfterVerification ==
    Building =>
        /\ manifestPath \in fs => VerifiedOrWaived
        /\ b_exit = 0 => manifestPath \in fs /\ VerifiedOrWaived
        /\ verify \in {"missing", "nonzero"} =>
              /\ b_pc = "exited"
              /\ b_exit = 1
              /\ manifestPath \notin fs

\* a second build, after one that wrote its manifest, failed verification
C5_Witness ==
    /\ BuildEnded
    /\ builds = 2
    /\ verify \in {"missing", "nonzero"}
    /\ bundledPrefix \in fs

(***************************************************************************)
(* C6: when a build that was not skipped has ended, with success or with   *)
(* a failure at any stage, the scratch directory does not exist.           *)
(***************************************************************************)
C6_ScratchRemovedOnEveryExit ==
    BuildEnded => \A q \in fs : ~Under(q, tempDir)

(***************************************************************************)
(* C7: when the validator has exited after creating its ephemeral          *)
(* environment, whatever step passed or failed, the ephemeral environment  *)
(* directory has been deleted.                                             *)
(***************************************************************************)
C7_EphemeralDeletedOnExit ==
    (e_pc = "exited" /\ tempRoot # "none") => tempRoot = "removed"

(***************************************************************************)
(* C8: once the service process was started, the validator does not end    *)
(* main, nor exit, without SIGTERM sent to it: after the endpoint answered *)
(* and after the wait timed out.                                           *)
(***************************************************************************)
C8_ServiceSignalledBeforeExit ==
    (gateway # "none" /\ e_pc \in {"returned", "exited"}) => killed

\* the validator exited with a failure after the wait for the endpoint
\* timed out, the service process still running when it was signalled
C8_Witness ==
    /\ e_pc = "exited"
    /\ e_exit = 1
    /\ gateway = "running"
    /\ okStart < 0
    /\ killed

MinTriple == <<22, 12, 0>>

TripleGte(a, b) ==
    \/ a[1] > b[1]
    \/ a[1] = b[1] /\ a[2] > b[2]
    \/ a[1] = b[1] /\ a[2] = b[2] /\ a[3] >= b[3]

\* the version of the executable that printed out
TripleOf(out) == (CHOOSE b \in NodeBinaries : b.out = out).triple

IsProvisionedProbe(c) == c.cmd = bundledNodePath \o " -v" /\ c.status = 0

C10_RuntimeMeetsMinimum ==
    /\ runtime # NoRuntime =>
          /\ Len(TripleOf(runtime.nodeVersion)) = 3
          /\ TripleGte(TripleOf(runtime.nodeVersion), MinTriple)
          /\ runtime.nodeSource = "env:OPENCLAW_BUNDLE_NODE"
                => runtime.nodePath = env.OPENCLAW_BUNDLE_NODE
    /\ Cardinality({k \in 1..Len(cmds) :
                      cmds[k].cmd = "npm install node@" \o OPENCLAW_MIN_NODE}) <= 1
    /\ \A k \in 1..Len(cmds) :
          ( /\ IsProvisionedProbe(cmds[k])
            /\ ~( /\ Len(TripleOf(cmds[k].out)) = 3
                  /\ TripleGte(TripleOf(cmds[k].out), MinTriple) ) )
          => /\ k = Len(cmds)
             /\ b_pc = "exited"
             /\ b_exit = 1
             /\ runtime = NoRuntime

\* a build ended at the provisioner because the executable it had installed
\* reported 22.11.9
C10_Witness ==
    /\ BuildEnded
    /\ runtime = NoRuntime
    /\ Len(cmds) > 0
    /\ IsProvisionedProbe(cmds[Len(cmds)])
    /\ cmds[Len(cmds)].out = "v22.11.9"

(***************************************************************************)
(* C11: for two version texts, each an optional v, MAJOR.MINOR.PATCH and   *)
(* any suffix, versionGte returns true exactly when the triple of the      *)
(* first is at least the triple of the second, compared number by number   *)
(* on major, then minor, then patch: 9.x is below 10.x, and 22.11.9 is     *)
(* below 22.12.0.                                                          *)
(***************************************************************************)
C11_VersionsComparedAsNumbers ==
    (v_pc = "returned" /\ Len(v_left.triple) = 3 /\ Len(v_right.triple) = 3)
        => (v_verdict <=> TripleGte(v_left.triple, v_right.triple))

\* 22.11.9, written with a v and a suffix, was compared with 22.12.0 and
\* found insufficient
C11_Witness ==
    /\ v_pc = "returned"
    /\ v_left.text = " v22.11.9-rc.1"
    /\ v_right.text = OPENCLAW_MIN_NODE
    /\ ~v_verdict

(***************************************************************************)
(* The table of updater artifacts, row by row, for the names of the        *)
(* catalog: the operating system of the row a lowercased name matches,     *)
(* Null when it matches none.                                              *)
(***************************************************************************)
TableOs(name) ==
    LET l == toLowerCase(name)
    IN  IF endsWith(l, ".app.tar.gz") THEN "darwin"
        ELSE IF \/ includes(l, "setup") /\ endsWith(l, ".exe")
                \/ endsWith(l, ".msi")
                \/ endsWith(l, ".nsis.zip")
                \/ endsWith(l, ".msi.zip") THEN "windows"
        ELSE IF \/ endsWith(l, ".deb")
                \/ endsWith(l, ".rpm")
                \/ endsWith(l, ".appimage")
                \/ endsWith(l, ".appimage.tar.gz") THEN "linux"
        ELSE Null

tableOs == [name \in Catalog |-> TableOs(name)]

\* the entries of the platforms map written to latest.json
Platforms == latestJson.platforms

ManifestWritten == latestJson.kind = "manifest"

(***************************************************************************)
(* C12: every entry of the manifest written serves a file whose lowercased *)
(* name matches a row of the table, on the operating system of that row; a *)
(* file that matches no row, such as a .exe without setup in its name, is  *)
(* in no entry.                                                            *)
(***************************************************************************)
C12_OnlyTableRowsClassified ==
    ManifestWritten =>
        \A k \in 1..Len(Platforms) :
            \E name \in Catalog :
                /\ tableOs[name] # Null
                /\ startsWith(Platforms[k][1], tableOs[name] \o "-")
                /\ endsWith(Platforms[k][2].url, "/" \o name)

(***************************************************************************)
(* C13: when the manifest is written and the only signed darwin artifact   *)
(* is the .app.tar.gz without architecture token, darwin-x86_64 and        *)
(* darwin-aarch64 are both entries, with that file's signature and URL;    *)
(* when it is the one named for aarch64, darwin-aarch64 is an entry and    *)
(* darwin-x86_64 is none.                                                  *)
(***************************************************************************)
GenericMac == "App.app.tar.gz"
ArchMac    == "App_aarch64.app.tar.gz"

DarwinSigned == {NameOf(i) : i \in {j \in Sidecars : Signed(j) /\ tableOs[NameOf(j)] = "darwin"}}

C13_GenericMacServesBothTargets ==
    ManifestWritten =>
        /\ DarwinSigned = {GenericMac} =>
              /\ {"darwin-x86_64", "darwin-aarch64"} \subseteq MapKeys(Platforms)
              /\ MapGet(Platforms, "darwin-x86_64") = MapGet(Platforms, "darwin-aarch64")
              /\ MapGet(Platforms, "darwin-x86_64").signature = "sig " \o GenericMac
              /\ endsWith(MapGet(Platforms, "darwin-x86_64").url, "/" \o GenericMac)
        /\ DarwinSigned = {ArchMac} =>
              /\ "darwin-aarch64" \in MapKeys(Platforms)
              /\ "darwin-x86_64" \notin MapKeys(Platforms)
              /\ endsWith(MapGet(Platforms, "darwin-aarch64").url, "/" \o ArchMac)
        /\ DarwinSigned = {} =>
              MapKeys(Platforms) \cap {"darwin-x86_64", "darwin-aarch64"} = {}

\* a manifest was written for a windows installer and the generic darwin
\* archive, the only signed darwin artifact
C13_Witness ==
    /\ ManifestWritten
    /\ DarwinSigned = {GenericMac}
    /\ Len(Platforms) = 3

(***************************************************************************)
(* C14: the architecture of the targets of a classified name is the one    *)
(* its architecture part names, the first class in the order aarch64,      *)
(* x86_64, i686 when it holds tokens of two classes; letters of a token    *)
(* that no delimiter sets apart name none; without a token a windows or    *)
(* linux name gets x86_64.                                                 *)
(***************************************************************************)
Classified == c_pc \in {"targets", "scored"}

C14_ArchitectureOfTargets ==
    Classified =>
        LET os   == c_fileName.suffix.os
            arch == c_fileName.part.arch
        IN  /\ (os \in {"windows", "linux"} /\ arch # Null)
                  => c_targets = << os \o "-" \o arch >>
            /\ (os \in {"windows", "linux"} /\ arch = Null)
                  => c_targets = << os \o "-x86_64" >>
            /\ (os = "darwin" /\ arch # Null)
                  => c_targets = << "darwin-" \o arch >>

\* a linux package whose name holds arm64 and x64 was classified
C14_Witness ==
    /\ Classified
    /\ c_fileName.text = "App_arm64_x64.deb"
    /\ c_targets = << "linux-aarch64" >>

(***************************************************************************)
(* C15: the score of a name is the sum of the points of its suffix, 300    *)
(* for a .exe with setup in its name, minus 100 for portable in its name,  *)
(* plus 20 for an architecture token; and when App-setup.exe and App.msi   *)
(* are both signed, the windows-x86_64 entry of the manifest written is    *)
(* the one of App-setup.exe.                                               *)
(***************************************************************************)
TableScore(name) ==
      name.suffix.points
    + (IF name.stem.setup /\ name.suffix.text = ".exe" THEN 300 ELSE 0)
    - (IF name.stem.portable THEN 100 ELSE 0)
    + (IF name.part.arch # Null THEN 20 ELSE 0)

SignedNames == {NameOf(i) : i \in {j \in Sidecars : Signed(j)}}

C15_ScoreIsTheAdditiveTable ==
    /\ c_pc = "scored" => c_baseScore = TableScore(c_fileName)
    /\ (ManifestWritten /\ {"App-setup.exe", "App.msi"} \subseteq SignedNames) =>
          /\ "windows-x86_64" \in MapKeys(Platforms)
          /\ MapGet(Platforms, "windows-x86_64").signature = "sig App-setup.exe"
          /\ endsWith(MapGet(Platforms, "windows-x86_64").url, "/App-setup.exe")

\* a manifest was written from App.msi, met first, and App-setup.exe, both
\* signed
C15_Witness ==
    /\ ManifestWritten
    /\ Len(sigFiles) = 2
    /\ NameOf(CHOOSE i \in Sidecars : \A j \in Sidecars : i <= j) = "App.msi"
    /\ {"App-setup.exe", "App.msi"} \subseteq SignedNames

(***************************************************************************)
(* C16: a build that was not skipped, whatever the builds before it left,  *)
(* has an empty bundle directory and an empty scratch directory once its   *)
(* first step is done; from then on the bundle directory holds nothing but *)
(* what the stages this build has passed wrote, and after a success        *)
(* exactly what a build writes.                                            *)
(***************************************************************************)
InBundle == {q \in fs : Under(q, bundleDir)}

InScratch == {q \in fs : Under(q, tempDir)}

\* what the stages before position pc write into the bundle directory
BundleWrittenBefore(pc) ==
    {bundleDir}
    \cup (IF pc \in {"copyNode", "copyNpm", "warm", "snapshot", "verify", "manifest",
                     "writable", "rmtemp"} THEN {bundledTgz} ELSE {})
    \cup (IF pc \in {"copyNpm", "warm", "snapshot", "verify", "manifest",
                     "writable", "rmtemp"} THEN {nodeDir, nodeTarget} ELSE {})
    \cup (IF pc \in {"warm", "snapshot", "verify", "manifest", "writable", "rmtemp"}
          THEN {npmTarget} ELSE {})
    \cup (IF pc \in {"snapshot", "verify", "manifest", "writable", "rmtemp"}
          THEN {cacheDir} ELSE {})
    \cup (IF pc \in {"verify", "manifest", "writable", "rmtemp"}
          THEN {bundledPrefix} ELSE {})
    \cup (IF pc \in {"writable", "rmtemp"} THEN {manifestPath} ELSE {})

C16_BuildStartsFromEmptyDirs ==
    Building =>
        /\ b_pc = "pack" => InBundle = {bundleDir} /\ InScratch = {tempDir}
        /\ b_pc # "exited" => InBundle = BundleWrittenBefore(b_pc)
        /\ b_exit = 0 => InBundle = BundleWrittenBefore("rmtemp")

\* a later build has done its first step after a build that failed between
\* its local pack and the copy of the archive, whose packed file is still there
C16_Witness ==
    /\ Building
    /\ builds = 2
    /\ b_pc = "pack"
    /\ pathJoin(openclawRoot, "openclaw.tgz") \in fs
    /\ InBundle = {bundleDir}

(***************************************************************************)
(* C17: a build started with the skip-preparation switch set ends at once  *)
(* with exit code 0, has run no external command, and its start leaves     *)
(* every file and directory as it was.                                     *)
(***************************************************************************)
Skipped == b_pc \notin {"off", "idle"} /\ env.OPENCLAW_DESKTOP_SKIP_BUNDLE_PREP = "1"

C17_SkipSwitchDoesNothing ==
    /\ [](Skipped => (b_pc = "exited" /\ b_exit = 0 /\ cmds = <<>>))
    /\ [][(builds' # builds /\ env'.OPENCLAW_DESKTOP_SKIP_BUNDLE_PREP = "1")
              => (fs' = fs /\ b_pc' = "exited")]_vars

\* a skipped build ended on a host where a failed build had left a bundle
\* directory without manifest and a verification copy in the scratch directory
C17_Witness ==
    /\ Skipped
    /\ b_pc = "exited"
    /\ builds = 2
    /\ verifyPrefix \in fs
    /\ manifestPath \notin fs

(***************************************************************************)
(* C18: when a build that packed the archive from the local source tree    *)
(* has ended, with success or with a failure at a later stage, the packed  *)
(* file no longer exists.                                                  *)
(***************************************************************************)
C18_PackedFileReleasedOnEveryExit ==
    (BuildEnded /\ packed # NoPacked /\ packed.source = "local-source")
        => packed.packedFile \notin fs

(***************************************************************************)
(* C19: once the verification of the snapshot has ended, with the version  *)
(* subcommand succeeding, exiting non-zero, or the executable missing, the *)
(* verification copy no longer exists.                                     *)
(***************************************************************************)
C19_VerifyCopyDeletedOnEveryOutcome ==
    (Building /\ verify \in {"ok", "missing", "nonzero"}) => verifyPrefix \notin fs

(***************************************************************************)
(* C20: during a build, every path the builder has created outside the     *)
(* bundle directory lies under the scratch directory.                      *)
(***************************************************************************)
C20_TemporariesUnderScratch ==
    Building => \A q \in fs : Under(q, bundleDir) \/ Under(q, tempDir)

(***************************************************************************)
(* The commands of a build that ask the package registry for a package:    *)
(* an install, and a pack of a package named by a registry spec.  A pack   *)
(* of the local tree, and the -v and --version probes, do not.             *)
(***************************************************************************)
ReachesRegistry(c) ==
    \/ startsWith(c.cmd, "npm install ")
    \/ startsWith(c.cmd, "npm pack ") /\ c.cmd # "npm pack --ignore-scripts"

WarmCommand == "npm install " \o bundledTgz \o " --cache " \o cacheDir

(***************************************************************************)
(* C21: in a build the only commands that reach the network are the        *)
(* cache-warming install and, when there is no local build output, the     *)
(* pack of the registry spec; obtaining the runtime and every other step   *)
(* run no command that reaches the network.                                *)
(***************************************************************************)
C21_OnlyWarmAndResolveUseNetwork ==
    Building =>
        \A k \in 1..Len(cmds) :
            ReachesRegistry(cmds[k]) =>
                \/ cmds[k].cmd = WarmCommand
                \/ /\ ~localOpenclawBuildReady(env.source)
                   /\ cmds[k].cmd = "npm pack " \o packSpec(env.source)

(***************************************************************************)
(* C22: the provisioner returns the override path, with origin override    *)
(* and without a package-manager install, exactly when the override path   *)
(* exists and the version it reports is at least the minimum; a runtime    *)
(* returned in any other case was installed by the package manager into a  *)
(* prefix inside the scratch directory, and an install next to an existing *)
(* override happens only after that override reported too little.          *)
(***************************************************************************)
OverrideProbes ==
    {k \in 1..Len(cmds) :
        cmds[k].cmd = env.OPENCLAW_BUNDLE_NODE \o " -v" /\ cmds[k].status = 0}

OverrideQualifies ==
    /\ env.OPENCLAW_BUNDLE_NODE = "/opt/node"
    /\ \E k \in OverrideProbes :
          /\ Len(TripleOf(cmds[k].out)) = 3
          /\ TripleGte(TripleOf(cmds[k].out), MinTriple)

RuntimeInstalls ==
    {k \in 1..Len(cmds) : cmds[k].cmd = "npm install node@" \o OPENCLAW_MIN_NODE}

HasMetadata == env.source.packageJson # "missing"
HasEntry    == env.source.dist
PinnedSpec  == IF env.source.packageJson = "ok" THEN "openclaw@2026.1.1"
               ELSE "openclaw@latest"

C23_LocalPackIffBuildOutput ==
    (Building /\ Len(cmds) >= 1) =>
        IF HasMetadata /\ HasEntry
        THEN /\ cmds[1].cmd = "npm pack --ignore-scripts"
             /\ packed # NoPacked => packed.source = "local-source"
        ELSE /\ cmds[1].cmd = "npm pack " \o PinnedSpec
             /\ packed # NoPacked =>
                   /\ packed.source = "npm-registry:" \o PinnedSpec
                   /\ startsWith(packed.packedFile, tempDir \o "/")

\* a tree with a compiled entry file and no metadata file was packed from the
\* registry at latest
C23_Witness ==
    /\ Building
    /\ ~HasMetadata
    /\ HasEntry
    /\ packed # NoPacked
    /\ packed.source = "npm-registry:openclaw@latest"
    /\ packed.packedFile \in fs

(***************************************************************************)
(* C24: a precondition error is not replaced by a fallback value: a build  *)
(* whose local metadata file exists and is malformed never goes on to pack *)
(* openclaw@latest in its place.                                           *)
(***************************************************************************)
C24_MalformedMetadataAborts ==
    (Building /\ env.source.packageJson = "malformed") =>
        \A k \in 1..Len(cmds) : cmds[k].cmd # "npm pack openclaw@latest"

(***************************************************************************)
(* C25: when the probe returns and a binary wrapper script (a candidate    *)
(* that is no .mjs entry-point file) exists as a regular file, the path    *)
(* returned is a wrapper script: every wrapper location is probed before   *)
(* every raw entry-point location.                                         *)
(***************************************************************************)
IsWrapper(candidate) == ~endsWith(candidate, ".mjs")

C25_WrappersBeforeEntryPoints ==
    ( /\ p_pc = "returned"
      /\ \E c \in DOMAIN p_kinds : IsWrapper(c) /\ p_kinds[c] = "file" )
    => IsWrapper(p_found)

(***************************************************************************)
(* C26: the validator runs onboarding at most twice, the first time with   *)
(* the credential of the credential file; it runs it a second time, with   *)
(* the auth choice skip, only when the first run failed with the OAuth     *)
(* non-interactive rejection; when the first run fails otherwise, or the   *)
(* second run fails, it exits with code 1 and starts no service; the       *)
(* service is started only after a run of onboarding that succeeded.       *)
(***************************************************************************)
Rejected(r) ==
    ~r.ok /\ r.msg = "openclaw onboard failed: OAuth requires interactive mode"

C26_FallbackOnlyOnOAuthRejection ==
    /\ Len(onboardRuns) <= 2
    /\ Len(onboardRuns) >= 1 =>
          /\ onboardRuns[1].authChoice = "openai-codex"
          /\ Rejected(onboardRuns[1]) <=> Len(onboardRuns) = 2
          /\ (~onboardRuns[1].ok /\ ~Rejected(onboardRuns[1])) =>
                e_pc = "exited" /\ e_exit = 1 /\ gateway = "none"
    /\ Len(onboardRuns) = 2 =>
          /\ onboardRuns[2].authChoice = "skip"
          /\ ~onboardRuns[2].ok => e_pc = "exited" /\ e_exit = 1 /\ gateway = "none"
    /\ gateway # "none" =>
          /\ Len(onboardRuns) >= 1
          /\ onboardRuns[Len(onboardRuns)].ok

\* the first run was rejected, the run with skip succeeded and the service
\* was started
C26_Witness ==
    /\ Len(onboardRuns) = 2
    /\ Rejected(onboardRuns[1])
    /\ onboardRuns[2].ok
    /\ gateway = "running"

(***************************************************************************)
(* C27: a second run of the generator on the same directory, with the same *)
(* walk order and the same tag and repository, the latest.json of the      *)
(* first run now lying in the directory, writes the same version, the same *)
(* notes and the same platforms (the same keys in the same order, each     *)
(* with the same signature and URL) as the first; the two files differ in  *)
(* pub_date at most.                                                       *)
(***************************************************************************)
C27_SecondRunWritesTheSame ==
    (g_run = 2 /\ g_pc = "exited") =>
        /\ g_exit = 0
        /\ firstJson.kind = "manifest"
        /\ latestJson.kind = "manifest"
        /\ latestJson.version = firstJson.version
        /\ latestJson.notes = firstJson.notes
        /\ latestJson.platforms = firstJson.platforms
        /\ existsFile(tree, latestPath)

\* two runs wrote two platforms each and differ in pub_date
C27_Witness ==
    /\ g_run = 2
    /\ g_pc = "exited"
    /\ Len(firstJson.platforms) >= 2
    /\ latestJson.pub_date # firstJson.pub_date

(***************************************************************************)
(* C28: the version of the manifest written is the tag without its leading *)
(* v, when it has one, and the URL of every entry is                       *)
(* https://github.com/<repository>/releases/download/<tag>/<file name>     *)
(* with the tag as given, v included, and the file name of the candidate   *)
(* kept for the entry's target, both percent-encoded as URL components.    *)
(***************************************************************************)
\* the tags of the model and the file names of the catalog, percent-encoded:
\* a plus sign is %2B; letters, digits, dots, hyphens and underscores stay
EncodedTag ==
    CASE tagName = "v1.2.3" -> "v1.2.3"
      [] tagName = "1.2.3+b" -> "1.2.3%2Bb"

VersionOfTag ==
    CASE tagName = "v1.2.3" -> "1.2.3"
      [] tagName = "1.2.3+b" -> "1.2.3+b"

SomeArgMissing == \E f \in DOMAIN argv : argv[f] = ""

C29_MissingArgumentIsUsageExit ==
    (prog = "manifest" /\ SomeArgMissing) =>
        /\ g_pc \in {"args", "exited"}
        /\ g_pc = "exited" => g_exit = 1
        /\ g_exit # 0
        /\ sigFiles = <<>>
        /\ sigIdx = 0
        /\ bestByTarget = <<>>
        /\ latestJson = Absent
        /\ ~existsFile(tree, latestPath)

\* only the repository was not given, the directory holds a signed artifact,
\* and the process has exited
C29_Witness ==
    /\ g_pc = "exited"
    /\ g_exit = 1
    /\ argv.assetsDirArg # ""
    /\ argv.tagNameArg # ""
    /\ argv.githubRepoArg = ""
    /\ \E i \in 1..Len(tree) : endsWith(tree[i].path, ".sig") /\ trim(tree[i].text) # ""

(***************************************************************************)
(* C30: when ensureUserWritableRecursive has returned, every entry under   *)
(* the bundle directory, the root and manifest.json included, has its      *)
(* owner-write bit set, each entry was taken from the queue exactly once,  *)
(* and the mode of everything on disk is the mode it had before with, at   *)
(* most, the owner-write bit added.                                        *)
(***************************************************************************)
UnderBundle == {q \in DOMAIN w_nodes : Under(q, bundleDir)}

C30_OnlyOwnerWriteAdded ==
    w_pc = "returned" =>
        /\ \A q \in UnderBundle :
              /\ (w_nodes[q].mode \div 128) % 2 = 1
              /\ w_visits[q] = 1
        /\ \A q \in DOMAIN w_nodes :
              w_nodes[q].mode \in {w_before[q].mode, w_before[q].mode + 128}

(***************************************************************************)
(* C31: a call of handleOAuthStart made for openai-codex while local Codex *)
(* auth is detected calls reuseLocalCodexAuth and never startOAuthLogin;   *)
(* the shell is entered for it only when the call reported reused, and     *)
(* when it did not, or threw, an error is the status and no other call     *)
(* follows from it.                                                        *)
(***************************************************************************)
ShellEntries ==
    Cardinality({k \in 1..Len(o_calls) : o_calls[k].result \in {"reused", "launched"}})

C31_DetectedCodexIsReusedOnly ==
    /\ \A k \in 1..Len(o_calls) :
          (o_calls[k].providerId = "openai-codex" /\ o_calls[k].detected) =>
              /\ o_calls[k].bridge = "reuseLocalCodexAuth"
              /\ o_calls[k].result \in {"pending", "reused", "not-reused", "threw"}
              /\ o_calls[k].result \in {"not-reused", "threw"} =>
                    o_calls[k].status = "error"
              /\ o_calls[k].result = "pending" => (k = Len(o_calls) /\ o_busy)
    /\ prog = "onboarding" => o_shell = ShellEntries
    /\ Cardinality({k \in 1..Len(o_calls) : o_calls[k].result = "pending"}) <= 1

\* the reuse failed, the user pressed start again, and the second call is a
\* reuse call too
C31_Witness ==
    /\ Len(o_calls) = 2
    /\ o_calls[1].bridge = "reuseLocalCodexAuth"
    /\ o_calls[1].result = "not-reused"
    /\ o_calls[2].bridge = "reuseLocalCodexAuth"
    /\ o_calls[2].detected
    /\ o_shell = 0

(***************************************************************************)
(* C33: two runs of the bundle builder on one bundle directory are not     *)
(* kept apart.  Whatever the other run has placed, a run's recreation of   *)
(* the bundle directory leaves none of it, and its recreation or final     *)
(* removal of the scratch directory leaves nothing under it; a run that    *)
(* then needs a file that is gone ends with exit code 1, and a run that    *)
(* has already passed its last use of the bundle ends with exit code 0.    *)
(***************************************************************************)
OtherRun(i) == 3 - i

C33_RunsAreNotIsolated ==
    [][\A i \in Runs :
          /\ (r_pc[i] = "cleanBundle" /\ r_pc'[i] = "cleanTemp") =>
                /\ r_wrote[OtherRun(i)] \cap r_fs' = {}
                /\ \A q \in r_fs' : Under(q, bundleDir) => q = bundleDir
          /\ (r_pc[i] \in {"cleanTemp", "rmtemp"} /\ r_pc'[i] # r_pc[i]) =>
                \A q \in r_fs' : Under(q, tempDir) => q = tempDir
          /\ (r_pc[i] = "copyTgz" /\ r_pc'[i] # r_pc[i] /\ remotePacked \notin r_fs) =>
                r_exit'[i] = 1
          /\ (r_pc[i] = "copyNode" /\ r_pc'[i] # r_pc[i] /\ bundledNodePath \notin r_fs) =>
                r_exit'[i] = 1
          /\ (r_pc[i] = "warm" /\ r_pc'[i] # r_pc[i] /\ bundledTgz \notin r_fs) =>
                r_exit'[i] = 1
          /\ (r_pc[i] = "rmtemp" /\ r_pc'[i] # r_pc[i]) => r_exit'[i] = 0
    ]_vars

\* one run has ended with exit code 0 and the bundle holds none of the files
\* it placed, the other has ended with exit code 1
C33_Witness ==
    \E i \in Runs :
        /\ r_exit[i] = 0
        /\ r_wrote[i] = {bundledTgz, nodeTarget, npmTarget, cacheDir,
                         bundledPrefix, manifestPath}
        /\ r_wrote[i] \cap r_fs = {}
        /\ r_exit[OtherRun(i)] = 1
        /\ r_wrote[OtherRun(i)] = {}

(***************************************************************************)
(* C32: every installation the updater widget started holds an update      *)
(* that a check returned; relaunch was invoked only for an installation    *)
(* whose downloadAndInstall resolved; an installation whose                *)
(* downloadAndInstall threw put the widget in the error phase and          *)
(* relaunch was not invoked for it.                                        *)
(***************************************************************************)
C32_InstallAfterCheckRelaunchAfterInstall ==
    \A k \in 1..Len(u_installs) :
        LET attempt == u_installs[k]
        IN  /\ attempt.handle \in 1..Len(u_checks)
            /\ u_checks[attempt.handle].result = "update"
            /\ attempt.relaunch => attempt.downloaded
            /\ attempt.result \in {"installed", "relaunched", "relaunch-threw"} =>
                   attempt.relaunch /\ attempt.downloaded
            /\ attempt.result = "failed" =>
                   ~attempt.relaunch /\ attempt.phase = "error"
            /\ attempt.result = "pending" => ~attempt.relaunch

\* a first installation failed and left the error phase, a second one was
\* downloaded and the application relaunched
C32_Witness ==
    /\ Len(u_installs) = 2
    /\ u_installs[1].result = "failed" /\ ~u_installs[1].relaunch
    /\ u_installs[2].result = "relaunched"

(***************************************************************************)
(* C35: a check and a download-and-install are never in flight at the      *)
(* same time, no check replaces or clears the update handle of an          *)
(* installation in flight, and the startup check does not start while the  *)
(* phase is downloading.                                                   *)
(***************************************************************************)
PendingChecks == {k \in 1..Len(u_checks) : u_checks[k].result = "pending"}

PendingInstalls == {k \in 1..Len(u_installs) : u_installs[k].result = "pending"}

C35_CheckAndInstallNeverOverlap ==
    /\ PendingChecks = {} \/ PendingInstalls = {}
    /\ \A k \in PendingInstalls : u_updateRef = u_installs[k].handle
    /\ \A k \in PendingInstalls : u_phase = "downloading"
    /\ \A k \in 1..Len(u_checks) : u_checks[k].during # "downloading"

(***************************************************************************)
(* C36: officialLoading is true whenever a call of ensureOfficialWebReady  *)
(* is in flight, also when two calls overlap: the completion of one does   *)
(* not clear the flag while another is still running.                      *)
(***************************************************************************)
C36_LoadingWhileInFlight == InFlight # {} => s_loading

(***************************************************************************)
(* C37: the listener of bootstrap-log that the mount effect registers is   *)
(* unregistered exactly once and only after unmount, whichever comes       *)
(* first, unmount or the completion of the registration: once the view is  *)
(* unmounted and listen() has resolved, its function has been called once  *)
(* and no listener remains.                                                *)
(***************************************************************************)
C37_UnlistenExactlyOnce ==
    /\ m_unlistenCalls <= 1
    /\ (m_mounted /\ m_listen \in {"pending", "resolved"}) =>
           m_unlistenCalls = 0 /\ m_registered = 1
    /\ (prog = "bootstrap" /\ ~m_mounted /\ m_listen = "resolved") =>
           m_unlistenCalls = 1 /\ m_registered = 0

\* the view was unmounted while listen() was pending, and listen() has
\* resolved since
C37_Witness ==
    /\ ~m_mounted /\ m_cancelled
    /\ m_listen = "resolved"
    /\ ~m_unlisten
    /\ m_unlistenCalls = 1
    /\ m_registered = 0

(***************************************************************************)
(* C38: while a bootstrap run is awaited the live log buffer holds at most *)
(* 500 lines.  A log event appends its line last and keeps the order of    *)
(* the lines before it; at a full buffer exactly the oldest line is        *)
(* dropped.  Starting a run empties the buffer.                            *)
(***************************************************************************)
AppendsLast ==
    (m_emitted' = m_emitted + 1) =>
        /\ Len(m_liveLogs') <= LogCap
        /\ m_liveLogs'[Len(m_liveLogs')] = m_emitted + 1
        /\ m_liveLogs' = IF Len(m_liveLogs) = LogCap
                         THEN Append(Tail(m_liveLogs), m_emitted + 1)
                         ELSE Append(m_liveLogs, m_emitted + 1)

EmptiesAtStart == (m_runs' = m_runs + 1) => (m_liveLogs' = <<>>)

X64Mac == "App_x64.app.tar.gz"

ScannedBefore(a, b) ==
    \E i, j \in Sidecars : i < j /\ NameOf(i) = a /\ NameOf(j) = b

ServedBy(target, name) ==
    /\ target \in MapKeys(Platforms)
    /\ MapGet(Platforms, target).signature = "sig " \o name
    /\ endsWith(MapGet(Platforms, target).url, "/" \o name)

C34_ArchSpecificMacWinsItsTarget ==
    ManifestWritten =>
        /\ DarwinSigned = {GenericMac, ArchMac} =>
              /\ ServedBy("darwin-aarch64", ArchMac)
              /\ ServedBy("darwin-x86_64", GenericMac)
        /\ DarwinSigned = {GenericMac, X64Mac} =>
              /\ ServedBy("darwin-x86_64", X64Mac)
              /\ ServedBy("darwin-aarch64", GenericMac)

\* the generic file was scanned first and the file of the architecture took
\* its target from it
C34_Witness ==
    /\ ManifestWritten
    /\ g_run = 1
    /\ DarwinSigned = {GenericMac, X64Mac}
    /\ ScannedBefore(GenericMac, X64Mac)
    /\ ServedBy("darwin-x86_64", X64Mac)
    /\ ServedBy("darwin-aarch64", GenericMac)

(***************************************************************************)
(* C39: the validator writes nothing outside its ephemeral root: it only   *)
(* reads the real credential file, writes the copy under the ephemeral     *)
(* home, and starts every child (the offline install, setup, onboarding,   *)
(* the service) with HOME and USERPROFILE set to the ephemeral home and    *)
(* HTTP_PROXY, HTTPS_PROXY and ALL_PROXY set to the unreachable address.   *)
(***************************************************************************)
IsBlocked(childEnv) ==
    /\ childEnv.HOME = tempHome
    /\ childEnv.USERPROFILE = tempHome
    /\ childEnv.HTTP_PROXY = BlockedProxy
    /\ childEnv.HTTPS_PROXY = BlockedProxy
    /\ childEnv.ALL_PROXY = BlockedProxy

=============================================================================
